---- MODULE Spec2Model ----
(***************************************************************************)
(* A model of the consul-decoder package (decoder.go): the type-metadata   *)
(* compiler (parseStruct), the process-wide type cache (typeCache.tMeta)   *)
(* and the assignment engine (Decoder.Unmarshal, Decoder.allocAssign,      *)
(* handleIntrinsicType).                                                   *)
(*                                                                         *)
(* Go strings are sequences of one-character strings, so that the string   *)
(* and path functions the code calls are computed character by character.  *)
(* Go types are records with a "kind"; Go values are records with a "k".   *)
(***************************************************************************)
EXTENDS Integers, Sequences, FiniteSets, TLC

(***************************************************************************)
(* strings.* and path.* as the code uses them                              *)
(***************************************************************************)
UpperChars == <<"A","B","C","D","E","F","G","H","I","J","K","L","M",
                "N","O","P","Q","R","S","T","U","V","W","X","Y","Z">>

LowerChars == <<"a","b","c","d","e","f","g","h","i","j","k","l","m",
                "n","o","p","q","r","s","t","u","v","w","x","y","z">>

LowerOfChar(c) ==
    IF \E i \in 1..Len(UpperChars) : UpperChars[i] = c
    THEN LowerChars[CHOOSE i \in 1..Len(UpperChars) : UpperChars[i] = c]
    ELSE c

\* strings.ToLower
ToLower(s) == [i \in 1..Len(s) |-> LowerOfChar(s[i])]

\* strings.HasPrefix
HasPrefix(s, p) == Len(s) >= Len(p) /\ SubSeq(s, 1, Len(p)) = p

\* strings.HasSuffix
HasSuffix(s, p) == Len(s) >= Len(p) /\ SubSeq(s, Len(s) - Len(p) + 1, Len(s)) = p

\* strings.TrimPrefix
TrimPrefix(s, p) == IF HasPrefix(s, p) THEN SubSeq(s, Len(p) + 1, Len(s)) ELSE s

\* strings.Split(s, sep) for a one-character separator: the pieces between
\* the separators, always at least one piece.
RECURSIVE SplitOn(_, _)
SplitOn(s, sep) ==
    IF \A i \in 1..Len(s) : s[i] # sep
    THEN <<s>>
    ELSE LET i == CHOOSE j \in 1..Len(s) :
                      s[j] = sep /\ \A h \in 1..(j-1) : s[h] # sep
         IN  <<SubSeq(s, 1, i - 1)>> \o SplitOn(SubSeq(s, i + 1, Len(s)), sep)

\* the elements of a sequence of strings joined with "/"
RECURSIVE JoinSegs(_)
JoinSegs(segs) ==
    IF Len(segs) = 0 THEN <<>>
    ELSE IF Len(segs) = 1 THEN segs[1]
    ELSE segs[1] \o <<"/">> \o JoinSegs(Tail(segs))

\* the element stack path.Clean keeps: empty and "." elements are dropped,
\* ".." removes the element before it (it is kept on a relative path that has
\* nothing left to remove, and dropped at the root).
RECURSIVE CleanSegs(_, _, _)
CleanSegs(segs, out, rooted) ==
    IF Len(segs) = 0 THEN out
    ELSE LET seg == segs[1]
             nout == IF seg = <<>> \/ seg = <<".">> THEN out
                     ELSE IF seg = <<".", ".">>
                          THEN IF Len(out) > 0 /\ out[Len(out)] # <<".", ".">>
                               THEN SubSeq(out, 1, Len(out) - 1)
                               ELSE IF rooted THEN out ELSE Append(out, seg)
                          ELSE Append(out, seg)
         IN  CleanSegs(Tail(segs), nout, rooted)

\* path.Clean
PathClean(p) ==
    IF p = <<>> THEN <<".">>
    ELSE LET Out(rooted, body) ==
                 IF rooted THEN <<"/">> \o body
                 ELSE IF body = <<>> THEN <<".">> ELSE body
         IN  Out(p[1] = "/", JoinSegs(CleanSegs(SplitOn(p, "/"), <<>>, p[1] = "/")))

\* path.Dir: everything up to the last slash, cleaned
PathDir(p) ==
    LET slashes == {i \in 1..Len(p) : p[i] = "/"}
        last    == IF slashes = {} THEN 0
                   ELSE CHOOSE i \in slashes : \A j \in slashes : j <= i
    IN  PathClean(SubSeq(p, 1, last))

\* path.Join of two elements
PathJoin(a, b) ==
    IF Len(a) + Len(b) = 0 THEN <<>>
    ELSE PathClean(IF a = <<>> THEN b ELSE a \o <<"/">> \o b)

(***************************************************************************)
(* Go types (reflect.Type) and Go values (reflect.Value)                   *)
(*                                                                         *)
(* A type is a record: kind, pkg and name (PkgPath() and Name(), both ""   *)
(* for an unnamed type), tu (whether the type has an UnmarshalText method: *)
(* "none", "value" receiver or "pointer" receiver), and by kind: bits,     *)
(* elem, key, fields.  A struct field is a record Name, PkgPath (empty for *)
(* an exported field), Anonymous, Tag (tag label -> tag text), Type.       *)
(***************************************************************************)
BasicT(kind, bits, name) ==
    [kind |-> kind, bits |-> bits, pkg |-> "", name |-> name, tu |-> "none"]

PtrTo(t)     == [kind |-> "ptr", elem |-> t, pkg |-> "", name |-> "", tu |-> "none"]
SliceOf(t)   == [kind |-> "slice", elem |-> t, pkg |-> "", name |-> "", tu |-> "none"]
MapOf(kt, t) == [kind |-> "map", key |-> kt, elem |-> t, pkg |-> "", name |-> "",
                 tu |-> "none"]

StructT(pkg, name, fields, tu) ==
    [kind |-> "struct", fields |-> fields, pkg |-> pkg, name |-> name, tu |-> tu]

\* an exported field
Fld(name, tag, type) ==
    [Name |-> name, PkgPath |-> "", Anonymous |-> FALSE, Tag |-> tag, Type |-> type]

\* an unexported field of package main
UnexportedFld(name, tag, type) ==
    [Name |-> name, PkgPath |-> "main", Anonymous |-> FALSE, Tag |-> tag, Type |-> type]

TInt    == BasicT("int", 64, "int")
TString == BasicT("string", 0, "string")
TChan   == BasicT("chan", 0, "")

\* reflect.StructTag.Get
TagGet(tag, label) == IF label \in DOMAIN tag THEN tag[label] ELSE <<>>

\* reflect.Type.Implements(textUnmarshalerType): the method set of T holds
\* the value-receiver methods, that of *T the methods of both receivers.
Implements(t) ==
    IF t.kind = "ptr"
    THEN t.elem.kind # "ptr" /\ t.elem.tu # "none"
    ELSE t.tu = "value"

NilV         == [k |-> "nil"]
PtrV(v)      == [k |-> "ptr", p |-> v]
IntV(n)      == [k |-> "int", i |-> n]
UintV(n)     == [k |-> "uint", u |-> n]
StrV(s)      == [k |-> "string", s |-> s]
BoolV(b)     == [k |-> "bool", b |-> b]
BytesV(s)    == [k |-> "bytes", y |-> s]
SliceV(es)   == [k |-> "slice", e |-> es]
MapV(m)      == [k |-> "map", m |-> m]
StructV(fs)  == [k |-> "struct", f |-> fs]

\* reflect.Zero / the value reflect.New(t) points to.  A nil slice and an
\* empty slice are not told apart.
RECURSIVE Zero(_)
Zero(t) ==
    CASE t.kind = "bool"   -> BoolV(FALSE)
      [] t.kind = "int"    -> IntV(0)
      [] t.kind = "uint"   -> UintV(0)
      [] t.kind = "string" -> StrV(<<>>)
      [] t.kind = "slice"  -> IF t.elem.kind = "uint" /\ t.elem.bits = 8
                              THEN BytesV(<<>>) ELSE SliceV(<<>>)
      [] t.kind = "struct" -> StructV([i \in 1..Len(t.fields) |-> Zero(t.fields[i].Type)])
      [] OTHER             -> NilV

(***************************************************************************)
(* decoder.go: constants and metadata records                              *)
(***************************************************************************)
typeStruct          == 0
typeInt             == 1
typeDuration        == 2
typeUint            == 3
typeFloat           == 4
typeString          == 5
typeBool            == 6
typeByteSlice       == 7
typeNetIP           == 8
typeNetMask         == 9
typeTextUnmarshaler == 10

sNone == 0
sCSV  == 1
sSSV  == 2

tagJSON == <<"j","s","o","n">>
tagCSV  == <<"c","s","v">>
tagSSV  == <<"s","s","v">>
defTag  == "decoder"

\* error values; NoErr is Go's nil error
NoErr           == "nil"
InvalidValueErr == "invalid value passed: must be a non-nil pointer to a struct"
PanicErr        == "panic"

\* tFieldMeta methods
isCSV(tfm)        == tfm.special = sCSV
isSSV(tfm)        == tfm.special = sSSV
isNotSpecial(tfm) == tfm.special = sNone
isSpecial(tfm)    == ~isNotSpecial(tfm)

defaultNameResolver(field, tag) == IF tag # <<>> THEN tag ELSE field

\* a NameResolver of a caller: it answers with the tag alone
tagOnlyNameResolver(field, tag) == tag

defaultDecoder == [CaseSensitive |-> FALSE, NameResolver |-> "default", Tag |-> defTag]

\* typeKey
typeKey(t) ==
    IF t.pkg # "" /\ t.name # "" THEN t.pkg \o "." \o t.name ELSE t.name

\* isByteSlice answering that nothing is a sequence of bytes
isByteSliceNever(t) == FALSE

\* isByteSlice
isByteSlice(t) == t.kind = "slice" /\ t.elem.kind = "uint" /\ t.elem.bits = 8

(***************************************************************************)
(* The schema compiler: typeCacheManager.tMeta and Decoder.parseStruct     *)
(*                                                                         *)
(* A Decoder is a record CaseSensitive, NameResolver, Tag.  The cache      *)
(* (typeNameMetaMap) is a function from type keys to tMeta values; a tMeta *)
(* (tFieldsMetaMap) is a function from resolved names to tFieldMeta        *)
(* records.  The operators return a record err, tm, cache: the cache is    *)
(* written by nested calls also when the outer compile fails.              *)
(***************************************************************************)
EmptyMap == <<>>

Result(err, tm, cache) == [err |-> err, tm |-> tm, cache |-> cache]

\* d.NameResolver applied (lines 221-225)
ResolveName(d, fieldName, tagName) ==
    CASE d.NameResolver = "nil"     -> defaultNameResolver(fieldName, tagName)
      [] d.NameResolver = "default" -> defaultNameResolver(fieldName, tagName)
      [] d.NameResolver = "tagOnly" -> tagOnlyNameResolver(fieldName, tagName)

\* the tag label parseStruct reads (lines 184-187)
TagLabel(d) == IF d.Tag # "" THEN d.Tag ELSE defTag

\* the modifier loop (lines 231-242): the last of csv and ssv wins
SpecialOf(tagBits) ==
    LET idx == {j \in 2..Len(tagBits) : tagBits[j] = tagCSV \/ tagBits[j] = tagSSV}
    IN  IF idx = {} THEN sNone
        ELSE LET last == CHOOSE j \in idx : \A h \in idx : h <= j
             IN  IF tagBits[last] = tagCSV THEN sCSV ELSE sSSV

IsJSONOf(tagBits) == \E j \in 2..Len(tagBits) : tagBits[j] = tagJSON

\* the computedType of a scalar kind (lines 363-380)
ScalarType(t) ==
    CASE t.kind = "string" -> typeString
      [] t.kind = "int"    -> IF typeKey(t) = "time.Duration" THEN typeDuration ELSE typeInt
      [] t.kind = "uint"   -> typeUint
      [] t.kind = "float"  -> typeFloat
      [] t.kind = "bool"   -> typeBool

\* Flatten writing each copy under the name it has in the nested record
FlattenUnjoined(tfm, embedded, tm) ==
    [nk \in (DOMAIN tm) \cup (DOMAIN embedded) |->
        IF nk \in DOMAIN embedded
        THEN [embedded[nk] EXCEPT !.locators = tfm.locators \o embedded[nk].locators]
        ELSE tm[nk]]

\* the flattening loop (lines 340-351): every entry of the nested record is
\* copied under the joined name, with the field's locator put in front.
Flatten(tfm, embedded, tm) ==
    LET Copy(named) ==
            [nk \in (DOMAIN tm) \cup {named[k] : k \in DOMAIN embedded} |->
                IF \E k \in DOMAIN embedded : named[k] = nk
                THEN LET k == CHOOSE k \in DOMAIN embedded : named[k] = nk
                     IN  [embedded[k] EXCEPT
                              !.locators = tfm.locators \o embedded[k].locators]
                ELSE tm[nk]]
    IN  Copy([k \in DOMAIN embedded |-> PathJoin(tfm.fieldName, k)])

\* tm.tFieldsMetaMap[tfm.fieldName] = tfm
PutField(tm, tfm) == (tfm.fieldName :> tfm) @@ tm

RECURSIVE tMeta(_, _, _, _)
RECURSIVE parseStruct(_, _, _)
RECURSIVE parseFields(_, _, _, _, _)
RECURSIVE parseFieldType(_, _, _, _, _)

\* the loop Outer (lines 251-391) for one field, from type t on
parseFieldType(d, t, tfm0, tm, cache) ==
    LET ct  == IF Implements(t) THEN typeTextUnmarshaler ELSE tfm0.computedType
        loc == [tfm0.locators[1] EXCEPT !.ttype = t]
        tfm == [tfm0 EXCEPT !.locators = <<loc>>, !.computedType = ct]
        With(l) == [tfm EXCEPT !.locators = <<l>>]
    IN  CASE t.kind = "ptr" ->
               IF loc.isMap \/ loc.isSlice
               THEN LET n == (loc.collPtrCt + 1) % 256
                    IN  IF n = 0
                        THEN Result("collection pointer count overflow detected",
                                    EmptyMap, cache)
                        ELSE parseFieldType(d, t.elem,
                                 With([loc EXCEPT !.collPtrCt = n]), tm, cache)
               ELSE LET n == (loc.ptrCt + 1) % 256
                    IN  IF n = 0
                        THEN Result("pointer depth overflow detected", EmptyMap, cache)
                        ELSE parseFieldType(d, t.elem,
                                 With([loc EXCEPT !.ptrCt = n]), tm, cache)
          [] t.kind \in {"array", "slice"} ->
               IF isByteSlice(t)
               THEN LET bt == CASE typeKey(t) = "net.IP"     -> typeNetIP
                                [] typeKey(t) = "net.IPMask" -> typeNetMask
                                [] OTHER                     -> typeByteSlice
                    IN  Result(NoErr, PutField(tm, [tfm EXCEPT !.computedType = bt]),
                               cache)
               ELSE IF loc.isSlice
               THEN Result("slices of slices not supported, except [][]byte",
                           EmptyMap, cache)
               ELSE IF loc.isJSON
               THEN Result(NoErr, PutField(tm, With([loc EXCEPT !.isSlice = TRUE])),
                           cache)
               ELSE parseFieldType(d, t.elem, With([loc EXCEPT !.isSlice = TRUE]),
                                   tm, cache)
          [] t.kind = "map" ->
               IF loc.isJSON
               THEN Result(NoErr, PutField(tm, tfm), cache)
               ELSE IF loc.isMap
               THEN Result("maps to maps not supported", EmptyMap, cache)
               ELSE IF t.key.kind # "string"
               THEN Result("invalid map key type: only string map keys supported",
                           EmptyMap, cache)
               ELSE parseFieldType(d, t.elem, With([loc EXCEPT !.isMap = TRUE]),
                                   tm, cache)
          [] t.kind = "struct" ->
               IF isCSV(tfm) \/ isSSV(tfm)
               THEN Result("cannot use a struct type with isSSV or isCSV",
                           EmptyMap, cache)
               ELSE LET ct2  == IF ct # typeTextUnmarshaler THEN typeStruct ELSE ct
                        tfm2 == [tfm EXCEPT !.computedType = ct2]
                    IN  IF loc.isMap \/ loc.isSlice \/ loc.isJSON
                           \/ ct2 = typeTextUnmarshaler
                        THEN Result(NoErr, PutField(tm, tfm2), cache)
                        ELSE LET Embed(e) ==
                                     IF e.err # NoErr
                                     THEN Result(e.err, EmptyMap, e.cache)
                                     ELSE Result(NoErr, Flatten(tfm2, e.tm, tm), e.cache)
                             IN  Embed(tMeta(d, t, FALSE, cache))
          [] t.kind \in {"string", "int", "uint", "float", "bool"} ->
               IF ct # typeTextUnmarshaler
               THEN IF (isCSV(tfm) \/ isSSV(tfm)) /\ ~loc.isSlice
                    THEN Result("must use a slice of strings, ints, uints, floats or bools with isCSV or isSSV",
                                EmptyMap, cache)
                    ELSE Result(NoErr,
                                PutField(tm, [tfm EXCEPT !.computedType = ScalarType(t)]),
                                cache)
               ELSE Result(NoErr, PutField(tm, tfm), cache)
          [] OTHER ->
               IF ct = typeTextUnmarshaler
               THEN Result(NoErr, PutField(tm, tfm), cache)
               ELSE Result(NoErr, tm, cache)

\* parseField without the test of the skip sentinel and the empty name
parseFieldKeepAll(d, st, i, tm, cache) ==
    LET f == st.fields[i + 1]
        Named(tagBits, name) ==
            LET loc == [ind |-> i, ptrCt |-> 0, collPtrCt |-> 0, isSlice |-> FALSE,
                        isMap |-> FALSE, isJSON |-> IsJSONOf(tagBits),
                        ttype |-> f.Type]
                tfm == [locators |-> <<loc>>,
                        fieldName |-> IF ~d.CaseSensitive THEN ToLower(name) ELSE name,
                        computedType |-> typeStruct,
                        special |-> SpecialOf(tagBits)]
            IN  parseFieldType(d, f.Type, tfm, tm, cache)
        WithTag(tagBits) ==
            Named(tagBits,
                  ResolveName(d, f.Name, IF Len(tagBits) > 0 THEN tagBits[1] ELSE <<>>))
    IN  IF f.PkgPath # "" /\ ~f.Anonymous
        THEN Result(NoErr, tm, cache)
        ELSE WithTag(SplitOn(TagGet(f.Tag, TagLabel(d)), ","))

\* one iteration of fieldLoop (lines 192-392) for field i (from 0)
parseField(d, st, i, tm, cache) ==
    LET f == st.fields[i + 1]
        Named(tagBits, name) ==
            LET loc == [ind |-> i, ptrCt |-> 0, collPtrCt |-> 0, isSlice |-> FALSE,
                        isMap |-> FALSE, isJSON |-> IsJSONOf(tagBits),
                        ttype |-> f.Type]
                tfm == [locators |-> <<loc>>,
                        fieldName |-> IF ~d.CaseSensitive THEN ToLower(name) ELSE name,
                        computedType |-> typeStruct,
                        special |-> SpecialOf(tagBits)]
            IN  IF name = <<"-">> \/ name = <<>>
                THEN Result(NoErr, tm, cache)
                ELSE parseFieldType(d, f.Type, tfm, tm, cache)
        WithTag(tagBits) ==
            Named(tagBits,
                  ResolveName(d, f.Name, IF Len(tagBits) > 0 THEN tagBits[1] ELSE <<>>))
    IN  IF f.PkgPath # "" /\ ~f.Anonymous
        THEN Result(NoErr, tm, cache)
        ELSE WithTag(SplitOn(TagGet(f.Tag, TagLabel(d)), ","))

parseFields(d, st, i, tm, cache) ==
    IF i >= Len(st.fields)
    THEN Result(NoErr, tm, cache)
    ELSE LET More(r) == IF r.err # NoErr THEN r
                        ELSE parseFields(d, st, i + 1, r.tm, r.cache)
         IN  More(parseField(d, st, i, tm, cache))

\* Decoder.parseStruct
parseStruct(d, st, cache) ==
    IF st.kind # "struct"
    THEN Result("type is not struct", EmptyMap, cache)
    ELSE parseFields(d, st, 0, EmptyMap, cache)

\* tMeta inserting an entry, with no fields, also for a type that failed to
\* compile
tMetaKeepFailed(d, t, lock, cache) ==
    LET tk == typeKey(t)
    IN  IF tk = ""
        THEN Result("type cannot be determined", EmptyMap, cache)
        ELSE IF tk \in DOMAIN cache
        THEN Result(NoErr, cache[tk], cache)
        ELSE LET Store(r) == Result(r.err, r.tm, (tk :> r.tm) @@ r.cache)
             IN  Store(parseStruct(d, t, cache))

\* typeCacheManager.tMeta.  The lock argument chooses whether the call takes
\* tcm.lck; it does not change what is computed.
tMeta(d, t, lock, cache) ==
    LET tk == typeKey(t)
    IN  IF tk = ""
        THEN Result("type cannot be determined", EmptyMap, cache)
        ELSE IF tk \in DOMAIN cache
        THEN Result(NoErr, cache[tk], cache)
        ELSE LET Store(r) ==
                     IF r.err # NoErr
                     THEN Result(r.err, EmptyMap, r.cache)
                     ELSE Result(NoErr, r.tm, (tk :> r.tm) @@ r.cache)
             IN  Store(parseStruct(d, t, cache))

(***************************************************************************)
(* Value construction: strconv, handleIntrinsicType, encoding/json,        *)
(* encoding/csv, strings.Fields and the UnmarshalText of the caller's type *)
(***************************************************************************)
Digits == <<"0","1","2","3","4","5","6","7","8","9">>

IsDigit(c) == \E i \in 1..Len(Digits) : Digits[i] = c

DigitVal(c) == (CHOOSE i \in 1..Len(Digits) : Digits[i] = c) - 1

RECURSIVE DecimalVal(_)
DecimalVal(s) ==
    IF Len(s) = 0 THEN 0
    ELSE 10 * DecimalVal(SubSeq(s, 1, Len(s) - 1)) + DigitVal(s[Len(s)])

AllDigits(s) == Len(s) > 0 /\ \A i \in 1..Len(s) : IsDigit(s[i])

\* strconv.ParseUint(s, 10, 64): digits only.  The texts of the model have
\* few digits, so the 64-bit range error does not arise.
ParseUint(s) ==
    IF AllDigits(s) THEN [err |-> NoErr, n |-> DecimalVal(s)]
    ELSE [err |-> "strconv.ParseUint: invalid syntax", n |-> 0]

\* strconv.ParseInt(s, 10, 64): an optional sign, then digits
ParseInt(s) ==
    LET signed == Len(s) > 0 /\ s[1] \in {"+", "-"}
        body   == IF signed THEN Tail(s) ELSE s
    IN  IF AllDigits(body)
        THEN [err |-> NoErr,
              n |-> IF signed /\ s[1] = "-" THEN 0 - DecimalVal(body)
                    ELSE DecimalVal(body)]
        ELSE [err |-> "strconv.ParseInt: invalid syntax", n |-> 0]

\* strconv.ParseBool
ParseBool(s) ==
    IF s \in {<<"1">>, <<"t">>, <<"T">>, <<"T","R","U","E">>, <<"t","r","u","e">>,
              <<"T","r","u","e">>}
    THEN [err |-> NoErr, b |-> TRUE]
    ELSE IF s \in {<<"0">>, <<"f">>, <<"F">>, <<"F","A","L","S","E">>,
                   <<"f","a","l","s","e">>, <<"F","a","l","s","e">>}
    THEN [err |-> NoErr, b |-> FALSE]
    ELSE [err |-> "strconv.ParseBool: invalid syntax", b |-> FALSE]

\* reflect.Value.SetInt and SetUint store the 64-bit value narrowed to the
\* width of the field.  Widths of 32 and 64 bits are beyond the numbers of
\* the model and are kept as they are.
\* NarrowInt keeping a value beyond the width at the nearest end of the range
NarrowIntSaturate(n, bits) ==
    CASE bits = 8  -> IF n > 127 THEN 127 ELSE IF n < 0 - 128 THEN 0 - 128 ELSE n
      [] bits = 16 -> IF n > 32767 THEN 32767 ELSE IF n < 0 - 32768 THEN 0 - 32768 ELSE n
      [] OTHER     -> n

NarrowInt(n, bits) ==
    CASE bits = 8  -> ((n + 128) % 256) - 128
      [] bits = 16 -> ((n + 32768) % 65536) - 32768
      [] OTHER     -> n

NarrowUint(n, bits) ==
    CASE bits = 8  -> n % 256
      [] bits = 16 -> n % 65536
      [] OTHER     -> n

VResult(err, v) == [err |-> err, v |-> v]

\* handleIntrinsicType.  time.Duration, float and net.IP fields are not
\* among the modelled types; their branches are not evaluated.
handleIntrinsicType(data, ttype, cType) ==
    LET tval == Zero(ttype)
        SetInt(r) ==
            IF r.err # NoErr THEN VResult(r.err, tval)
            ELSE IF ttype.kind # "int" THEN VResult(PanicErr, tval)
            ELSE VResult(NoErr, IntV(NarrowInt(r.n, ttype.bits)))
        SetUint(r) ==
            IF r.err # NoErr THEN VResult(r.err, tval)
            ELSE IF ttype.kind # "uint" THEN VResult(PanicErr, tval)
            ELSE VResult(NoErr, UintV(NarrowUint(r.n, ttype.bits)))
        SetBool(r) ==
            IF r.err # NoErr THEN VResult(r.err, tval)
            ELSE IF ttype.kind # "bool" THEN VResult(PanicErr, tval)
            ELSE VResult(NoErr, BoolV(r.b))
    IN  CASE cType = typeInt  -> SetInt(ParseInt(data))
          [] cType = typeUint -> SetUint(ParseUint(data))
          [] cType = typeString ->
               IF ttype.kind # "string" THEN VResult(PanicErr, tval)
               ELSE VResult(NoErr, StrV(data))
          [] cType = typeByteSlice ->
               IF ~isByteSlice(ttype) THEN VResult(PanicErr, tval)
               ELSE VResult(NoErr, BytesV(data))
          [] cType = typeBool -> SetBool(ParseBool(data))
          [] cType \in {typeFloat, typeDuration, typeNetIP, typeNetMask} ->
               VResult("kind outside the model", tval)
          [] OTHER -> VResult(NoErr, tval)

\* (*TestTextUnmarshaler).UnmarshalText of the package's tests: "a:b" sets
\* the two fields, any other text is an error and changes nothing.
UnmarshalText(tval, data) ==
    LET bits == SplitOn(data, ":")
    IN  IF Len(bits) # 2 THEN VResult("invalid field", tval)
        ELSE VResult(NoErr, StructV(<<StrV(bits[1]), StrV(bits[2])>>))

\* strings.Fields: the maximal runs of non-space characters
RECURSIVE Fields(_)
Fields(s) ==
    IF Len(s) = 0 THEN <<>>
    ELSE IF s[1] = " " THEN Fields(Tail(s))
    ELSE LET ends == {i \in 1..Len(s) : s[i] = " "}
             n    == IF ends = {} THEN Len(s)
                     ELSE (CHOOSE i \in ends : \A j \in ends : i <= j) - 1
         IN  <<SubSeq(s, 1, n)>> \o Fields(SubSeq(s, n + 1, Len(s)))

\* csv.NewReader(..).Read() on an input of one line: the fields between the
\* commas; a field that starts with a quote runs to its closing quote, a
\* doubled quote inside it stands for one quote.  A quote in a field that did
\* not start with one, and a quoted field that is not closed or is followed
\* by anything but a comma, are errors; an empty input is io.EOF.
CSVRead(s) ==
    LET Bad(e) == [err |-> e, fields |-> <<>>]
        RECURSIVE Scan(_, _, _, _)
        Scan(i, st, cur, out) ==
            IF i > Len(s)
            THEN IF st = "quoted" THEN Bad("extraneous or missing \" in quoted-field")
                 ELSE [err |-> NoErr, fields |-> Append(out, cur)]
            ELSE CASE st = "start" ->
                        IF s[i] = "\"" THEN Scan(i + 1, "quoted", <<>>, out)
                        ELSE IF s[i] = "," THEN Scan(i + 1, "start", <<>>, Append(out, <<>>))
                        ELSE Scan(i + 1, "plain", <<s[i]>>, out)
                   [] st = "plain" ->
                        IF s[i] = "\"" THEN Bad("bare \" in non-quoted-field")
                        ELSE IF s[i] = "," THEN Scan(i + 1, "start", <<>>, Append(out, cur))
                        ELSE Scan(i + 1, "plain", Append(cur, s[i]), out)
                   [] st = "quoted" ->
                        IF s[i] = "\"" THEN Scan(i + 1, "closed", cur, out)
                        ELSE Scan(i + 1, "quoted", Append(cur, s[i]), out)
                   [] OTHER ->
                        IF s[i] = "\"" THEN Scan(i + 1, "quoted", Append(cur, "\""), out)
                        ELSE IF s[i] = "," THEN Scan(i + 1, "start", <<>>, Append(out, cur))
                        ELSE Bad("extraneous or missing \" in quoted-field")
    IN  IF Len(s) = 0 THEN Bad("EOF") ELSE Scan(1, "start", <<>>, <<>>)

(***************************************************************************)
(* encoding/json on the documents of the model: null, true, false,         *)
(* integers, strings without escapes, {} and {"k":v}, [] and [v,...] with  *)
(* scalar v.  A document is a record with a field j.                       *)
(***************************************************************************)
JSONScalar(s) ==
    IF s = <<"n","u","l","l">> THEN [j |-> "null"]
    ELSE IF s = <<"t","r","u","e">> THEN [j |-> "bool", b |-> TRUE]
    ELSE IF s = <<"f","a","l","s","e">> THEN [j |-> "bool", b |-> FALSE]
    ELSE IF Len(s) > 0 /\ AllDigits(IF s[1] = "-" THEN Tail(s) ELSE s)
    THEN [j |-> "num", n |-> ParseInt(s).n]
    ELSE IF Len(s) >= 2 /\ s[1] = "\"" /\ s[Len(s)] = "\""
            /\ \A i \in 2..(Len(s) - 1) : s[i] # "\""
    THEN [j |-> "str", s |-> SubSeq(s, 2, Len(s) - 1)]
    ELSE [j |-> "invalid"]

JSONParse(s) ==
    LET body == SubSeq(s, 2, Len(s) - 1)
        Items(docs) ==
            IF \A i \in 1..Len(docs) : docs[i].j # "invalid"
            THEN [j |-> "arr", a |-> docs]
            ELSE [j |-> "invalid"]
        Member(docs) ==
            IF Len(docs) = 2 /\ docs[1].j = "str" /\ docs[2].j # "invalid"
            THEN [j |-> "obj", m |-> (docs[1].s :> docs[2])]
            ELSE [j |-> "invalid"]
        Scalars(texts) == [i \in 1..Len(texts) |-> JSONScalar(texts[i])]
    IN  IF Len(s) >= 2 /\ s[1] \in {"{", "["}
        THEN IF s[1] = "{" /\ s[Len(s)] = "}"
             THEN IF body = <<>> THEN [j |-> "obj", m |-> EmptyMap]
                  ELSE Member(Scalars(SplitOn(body, ":")))
             ELSE IF s[1] = "[" /\ s[Len(s)] = "]"
             THEN IF body = <<>> THEN [j |-> "arr", a |-> <<>>]
                  ELSE Items(Scalars(SplitOn(body, ",")))
             ELSE [j |-> "invalid"]
        ELSE JSONScalar(s)

\* the name encoding/json matches an object key against: the json tag's
\* name, else the field name
JSONFieldName(f) ==
    LET tag == SplitOn(TagGet(f.Tag, "json"), ",")[1]
    IN  IF tag # <<>> THEN tag ELSE f.Name

\* json.Unmarshal of document doc into a fresh value of type t
RECURSIVE JSONDecode(_, _)
JSONDecode(doc, t) ==
    LET mismatch == VResult("json: cannot unmarshal into Go value", Zero(t))
    IN  IF doc.j = "null" THEN VResult(NoErr, Zero(t))
        ELSE CASE t.kind = "ptr" ->
                    LET r == JSONDecode(doc, t.elem)
                    IN  VResult(r.err, IF r.err = NoErr THEN PtrV(r.v) ELSE NilV)
               [] t.kind = "int" ->
                    IF doc.j = "num" /\ NarrowInt(doc.n, t.bits) = doc.n
                    THEN VResult(NoErr, IntV(doc.n)) ELSE mismatch
               [] t.kind = "uint" ->
                    IF doc.j = "num" /\ doc.n >= 0 /\ NarrowUint(doc.n, t.bits) = doc.n
                    THEN VResult(NoErr, UintV(doc.n)) ELSE mismatch
               [] t.kind = "string" ->
                    IF doc.j = "str" THEN VResult(NoErr, StrV(doc.s)) ELSE mismatch
               [] t.kind = "bool" ->
                    IF doc.j = "bool" THEN VResult(NoErr, BoolV(doc.b)) ELSE mismatch
               [] t.kind = "slice" /\ ~isByteSlice(t) ->
                    IF doc.j # "arr" THEN mismatch
                    ELSE LET rs == [i \in 1..Len(doc.a) |-> JSONDecode(doc.a[i], t.elem)]
                         IN  IF \E i \in 1..Len(rs) : rs[i].err # NoErr THEN mismatch
                             ELSE VResult(NoErr, SliceV([i \in 1..Len(rs) |-> rs[i].v]))
               [] t.kind = "map" ->
                    IF doc.j # "obj" \/ t.key.kind # "string" THEN mismatch
                    ELSE LET rs == [key \in DOMAIN doc.m |-> JSONDecode(doc.m[key], t.elem)]
                         IN  IF \E key \in DOMAIN rs : rs[key].err # NoErr THEN mismatch
                             ELSE VResult(NoErr, MapV([key \in DOMAIN rs |-> rs[key].v]))
               [] t.kind = "struct" ->
                    IF doc.j # "obj" THEN mismatch
                    ELSE LET hit(i) == {key \in DOMAIN doc.m :
                                          /\ t.fields[i].PkgPath = ""
                                          /\ ToLower(key) = ToLower(JSONFieldName(t.fields[i]))
                                          /\ JSONFieldName(t.fields[i]) # <<"-">>}
                             rs == [i \in 1..Len(t.fields) |->
                                      IF hit(i) = {} THEN VResult(NoErr, Zero(t.fields[i].Type))
                                      ELSE JSONDecode(doc.m[CHOOSE key \in hit(i) : TRUE],
                                                      t.fields[i].Type)]
                         IN  IF \E i \in 1..Len(rs) : rs[i].err # NoErr THEN mismatch
                             ELSE VResult(NoErr, StructV([i \in 1..Len(rs) |-> rs[i].v]))
               [] OTHER -> mismatch

\* json.Unmarshal(data, pointer to a fresh value of type t)
JSONUnmarshal(data, t) ==
    LET Decode(doc) ==
            IF doc.j = "invalid" THEN VResult("json: invalid character", Zero(t))
            ELSE JSONDecode(doc, t)
    IN  Decode(JSONParse(data))

(***************************************************************************)
(* The assignment engine: Decoder.Unmarshal and Decoder.allocAssign        *)
(*                                                                         *)
(* A pair (api.KVPair) is a record Key, Value.  The argument v of          *)
(* Unmarshal is a record type, val.  A reflect.Value the code mutates in   *)
(* place is a value the operators return anew; what a failed call leaves   *)
(* behind (allocated pointers, earlier assignments) is part of the result. *)
(***************************************************************************)
\* whether value v is a value of type t: reflect panics when a value of
\* another type is stored
RECURSIVE HasType(_, _)
HasType(v, t) ==
    CASE t.kind = "ptr"    -> v = NilV \/ (v.k = "ptr" /\ HasType(v.p, t.elem))
      [] t.kind = "int"    -> v.k = "int"
      [] t.kind = "uint"   -> v.k = "uint"
      [] t.kind = "string" -> v.k = "string"
      [] t.kind = "bool"   -> v.k = "bool"
      [] t.kind = "slice"  -> IF isByteSlice(t) THEN v.k = "bytes"
                              ELSE v.k = "slice"
                                   /\ \A i \in 1..Len(v.e) : HasType(v.e[i], t.elem)
      [] t.kind = "map"    -> v = NilV
                              \/ (v.k = "map" /\ \A key \in DOMAIN v.m : HasType(v.m[key], t.elem))
      [] t.kind = "struct" -> v.k = "struct" /\ Len(v.f) = Len(t.fields)
                              /\ \A i \in 1..Len(v.f) : HasType(v.f[i], t.fields[i].Type)
      [] OTHER             -> v = NilV

\* the loops "if IsNil() { Set(reflect.New(..)) }; fv = fv.Elem()" (lines
\* 588-594 and 659-664): the value behind n pointer layers of a field of
\* type ft, a nil layer being allocated on the way
RECURSIVE Deref(_, _, _)

\* Deref without the IsNil test: every pointer layer is allocated anew
DerefFresh(fv, ft, n) ==
    IF n = 0 THEN fv
    ELSE Deref(Zero(ft.elem), ft.elem, n - 1)

Deref(fv, ft, n) ==
    IF n = 0 THEN fv
    ELSE IF fv = NilV THEN Deref(Zero(ft.elem), ft.elem, n - 1)
    ELSE Deref(fv.p, ft.elem, n - 1)

RECURSIVE ElemTypeN(_, _)
ElemTypeN(ft, n) == IF n = 0 THEN ft ELSE ElemTypeN(ft.elem, n - 1)

\* the field as those loops leave it: n allocated layers around the value
RECURSIVE WrapPtr(_, _)
WrapPtr(v, n) == IF n = 0 THEN v ELSE PtrV(WrapPtr(v, n - 1))

\* KeyOf without the lower-casing
KeyOfExact(d, key) == key

KeyOf(d, key) == IF ~d.CaseSensitive THEN ToLower(key) ELSE key

\* the gathering loop (lines 521-534): i counts up while the rest shrinks
RECURSIVE Curate(_, _, _, _, _)
Curate(d, newprefix, i, rest, curated) ==
    IF i < Len(rest) /\ HasPrefix(KeyOf(d, rest[1].Key), KeyOf(d, newprefix))
    THEN Curate(d, newprefix, i + 1, Tail(rest), Append(curated, rest[1]))
    ELSE [curated |-> curated, rest |-> rest]

\* the sub-prefix of the element a pair belongs to (lines 496-507)
ElementPrefix(d, tfm, loc, thisPair, prefix) ==
    LET Element(newprefix, key) ==
            PathJoin(newprefix, SplitOn(TrimPrefix(key, newprefix), "/")[1]) \o <<"/">>
    IN  Element(KeyOf(d, IF loc.isSlice \/ loc.isMap
                         THEN PathJoin(prefix, tfm.fieldName) \o <<"/">>
                         ELSE prefix),
                KeyOf(d, thisPair.Key))

\* the key a map element is stored under (lines 599-610)
MapKey(d, tfm, thisPair, prefix) ==
    LET trimpath == KeyOf(d, PathJoin(prefix, tfm.fieldName) \o <<"/">>)
        key      == TrimPrefix(KeyOf(d, thisPair.Key), trimpath)
    IN  SplitOn(key, "/")[1]

\* handleFields (lines 612-627): every token decoded and wrapped
handleFields(fields, loc, tfm) ==
    LET Wrapped(rs) ==
            IF \E i \in 1..Len(rs) : rs[i].err # NoErr
            THEN [err |-> rs[CHOOSE i \in 1..Len(rs) :
                               /\ rs[i].err # NoErr
                               /\ \A j \in 1..(i - 1) : rs[j].err = NoErr].err,
                  vals |-> <<>>]
            ELSE [err |-> NoErr,
                  vals |-> [i \in 1..Len(rs) |-> WrapPtr(rs[i].v, loc.collPtrCt)]]
    IN  Wrapped([i \in 1..Len(fields) |->
                    handleIntrinsicType(fields[i], loc.ttype, tfm.computedType)])

AResult(err, val, rest, cache) == [err |-> err, val |-> val, rest |-> rest, cache |-> cache]

RECURSIVE Unmarshal(_, _, _, _, _)
RECURSIVE UnmarshalLoop(_, _, _, _, _, _, _)
RECURSIVE walkLocators(_, _, _, _, _, _, _, _, _)

\* lines 492-548: st, a pointer to a value of type loc.ttype
ContainerElement(d, tfm, loc, thisPair, rest, prefix, cache) ==
    LET Fresh(r) == AResult(r.err, PtrV(r.v), rest, cache)
        Decoded(r, c) == AResult(r.err, r.v, c.rest, r.cache)
        Gathered(newprefix, c) ==
            Decoded(Unmarshal(d, newprefix, c.curated,
                              [type |-> PtrTo(loc.ttype), val |-> PtrV(Zero(loc.ttype))],
                              cache),
                    c)
        Nested(newprefix) ==
            Gathered(newprefix, Curate(d, newprefix, 0, rest, <<thisPair>>))
    IN  IF tfm.computedType = typeStruct \/ isSpecial(tfm)
        THEN IF loc.isJSON
             THEN Fresh(JSONUnmarshal(thisPair.Value, loc.ttype))
             ELSE IF isCSV(tfm) \/ isSSV(tfm)
             THEN AResult(NoErr, PtrV(SliceV(<<>>)), rest, cache)
             ELSE Nested(ElementPrefix(d, tfm, loc, thisPair, prefix))
        ELSE Fresh(handleIntrinsicType(thisPair.Value, loc.ttype, tfm.computedType))

\* AppendValues storing the new elements in place of the ones of the field
AppendValuesCleared(tfm, loc, inner, it, st, thisPair) ==
    LET Appended(err, vals) ==
            IF err # NoErr THEN VResult(err, inner)
            ELSE IF it.kind # "slice" \/ isByteSlice(it)
                    \/ \E i \in 1..Len(vals) : ~HasType(vals[i], it.elem)
            THEN VResult(PanicErr, inner)
            ELSE VResult(NoErr, SliceV(vals))
        Handled(hf) == Appended(hf.err, hf.vals)
        Read(fr) ==
            IF fr.err # NoErr THEN Appended(fr.err, <<>>)
            ELSE Handled(handleFields(fr.fields, loc, tfm))
    IN  IF isNotSpecial(tfm) THEN Appended(NoErr, <<st>>)
        ELSE Read(IF tfm.special = sCSV THEN CSVRead(thisPair.Value)
                  ELSE [err |-> NoErr, fields |-> Fields(thisPair.Value)])

\* the slice branch (lines 611-652) on the slice value inner of type it
AppendValues(tfm, loc, inner, it, st, thisPair) ==
    LET Appended(err, vals) ==
            IF err # NoErr THEN VResult(err, inner)
            ELSE IF it.kind # "slice" \/ isByteSlice(it)
                    \/ \E i \in 1..Len(vals) : ~HasType(vals[i], it.elem)
            THEN VResult(PanicErr, inner)
            ELSE VResult(NoErr, SliceV(inner.e \o vals))
        Handled(hf) == Appended(hf.err, hf.vals)
        Read(fr) ==
            IF fr.err # NoErr THEN Appended(fr.err, <<>>)
            ELSE Handled(handleFields(fr.fields, loc, tfm))
    IN  IF isNotSpecial(tfm) THEN Appended(NoErr, <<st>>)
        ELSE Read(IF tfm.special = sCSV THEN CSVRead(thisPair.Value)
                  ELSE [err |-> NoErr, fields |-> Fields(thisPair.Value)])

\* the map branch (lines 595-610) on the map value inner of type it
StoreInMap(d, tfm, inner, it, st, thisPair, prefix) ==
    IF it.kind # "map" THEN VResult(PanicErr, inner)
    ELSE LET m == IF inner = NilV THEN EmptyMap ELSE inner.m
         IN  IF ~HasType(st, it.elem) THEN VResult(PanicErr, MapV(m))
             ELSE VResult(NoErr, MapV((MapKey(d, tfm, thisPair, prefix) :> st) @@ m))

\* the body of "if loc.isSlice || loc.isMap || loc.isJSON" (lines 491-654)
\* for the field value fv of type ft; val of the result is the field after it
Terminal(d, tfm, loc, fv, ft, thisPair, rest, prefix, cache) ==
    LET deref == loc.collPtrCt = 0 /\ ~loc.isJSON /\ isNotSpecial(tfm)
        Stored(a, r) == AResult(r.err, WrapPtr(r.v, loc.ptrCt), a.rest, a.cache)
        Store(a, st1, st2, inner, it) ==
            IF a.err # NoErr THEN AResult(a.err, fv, a.rest, a.cache)
            \* nst.Set(st.Addr()) on a value that is not addressable (lines 559-564)
            ELSE IF ~deref /\ loc.collPtrCt > 1
            THEN AResult(PanicErr, fv, a.rest, a.cache)
            ELSE IF loc.isJSON
            THEN IF loc.ptrCt > 1 \/ ~HasType(st2, ft)
                 THEN AResult(PanicErr, fv, a.rest, a.cache)
                 ELSE AResult(NoErr, st2, a.rest, a.cache)
            ELSE Stored(a, IF loc.isMap
                           THEN StoreInMap(d, tfm, inner, it, st1, thisPair, prefix)
                           ELSE AppendValues(tfm, loc, inner, it, st1, thisPair))
        Element(a, st1) ==
            Store(a, st1, IF loc.ptrCt = 0 /\ a.err = NoErr THEN st1.p ELSE st1,
                  Deref(fv, ft, loc.ptrCt), ElemTypeN(ft, loc.ptrCt))
        Made(a) == Element(a, IF deref /\ a.err = NoErr THEN a.val.p ELSE a.val)
    IN  Made(ContainerElement(d, tfm, loc, thisPair, rest, prefix, cache))

\* lines 668-679: the value of the terminal field tval of type ttype
Leaf(tfm, tval, ttype, thisPair) ==
    IF tfm.computedType = typeTextUnmarshaler
    THEN IF ttype.kind = "ptr" \/ ttype.tu = "none" THEN VResult(PanicErr, tval)
         ELSE UnmarshalText(tval, thisPair.Value)
    ELSE LET Set(r) == IF r.err # NoErr THEN VResult(r.err, tval)
                       ELSE IF ~HasType(r.v, ttype) THEN VResult(PanicErr, tval)
                       ELSE r
         IN  Set(handleIntrinsicType(thisPair.Value, ttype, tfm.computedType))

\* the loop over tfm.locators (lines 487-666) from locator i on, on the
\* record value tval of type ttype; val of the result is the record after it
walkLocators(d, tfm, i, tval, ttype, thisPair, rest, prefix, cache) ==
    LET loc    == tfm.locators[i]
        ft     == ttype.fields[loc.ind + 1].Type
        fv     == tval.f[loc.ind + 1]
        set(x) == [tval EXCEPT !.f[loc.ind + 1] = x]
        inner  == Deref(fv, ft, loc.ptrCt)
        it     == ElemTypeN(ft, loc.ptrCt)
        Container(r) == AResult(r.err, set(r.val), r.rest, r.cache)
        Burrowed(r)  == AResult(r.err, set(WrapPtr(r.val, loc.ptrCt)), r.rest, r.cache)
        Assigned(r)  == AResult(r.err, set(WrapPtr(r.v, loc.ptrCt)), rest, cache)
    IN  IF loc.isSlice \/ loc.isMap \/ loc.isJSON
        THEN Container(Terminal(d, tfm, loc, fv, ft, thisPair, rest, prefix, cache))
        ELSE IF i < Len(tfm.locators)
        THEN Burrowed(walkLocators(d, tfm, i + 1, inner, it, thisPair, rest, prefix,
                                   cache))
        ELSE Assigned(Leaf(tfm, inner, it, thisPair))

\* Decoder.allocAssign
allocAssign(d, tfm, thisPair, rest, val, vtype, prefix, cache) ==
    walkLocators(d, tfm, 1, val, vtype, thisPair, rest, prefix, cache)

\* the ancestor walk (lines 455-469): the name of the schema entry the key
\* k is dispatched to, or <<".">> when the walk ends without one
RECURSIVE FindEntry(_, _)

\* FindEntry looking the last element of the key up instead of walking the
\* key's ancestors
FindEntryBase(meta, k) ==
    LET Last(segs) == IF segs[Len(segs)] \in DOMAIN meta THEN segs[Len(segs)]
                      ELSE <<".">>
    IN  Last(SplitOn(k, "/"))

\* FindEntry walking from the first directory of the key down to the key,
\* so that the shortest ancestor in the schema is the one found
FindEntryShortest(meta, k) ==
    LET Hits == {n \in 1..Len(k) :
                     /\ SubSeq(k, 1, n) \in DOMAIN meta
                     /\ (n = Len(k) \/ k[n + 1] = "/")}
        First(n) == IF \A m \in Hits : n <= m THEN SubSeq(k, 1, n) ELSE <<".">>
    IN  IF Hits = {} THEN <<".">> ELSE First(CHOOSE n \in Hits : \A m \in Hits : n <= m)

FindEntry(meta, k) ==
    IF k \in DOMAIN meta THEN k
    ELSE LET Up(dir) == IF dir = <<".">> \/ dir = <<"/">> THEN <<".">>
                        ELSE FindEntry(meta, dir)
         IN  Up(PathDir(k))

\* LoopStep putting a pair it skips back at the end of the list
LoopStepRequeue(d, meta, pathPrefix, kvps, val, vtype, cache) ==
    LET kvp  == kvps[1]
        rest == Tail(kvps)
        skip(p) == [err |-> NoErr, val |-> val, rest |-> Append(rest, kvp),
                    cache |-> cache, prefix |-> p]
        Assigned(r, pp) ==
            [err |-> r.err, val |-> r.val, rest |-> r.rest, cache |-> r.cache,
             prefix |-> pp]
        Found(hit, pp) ==
            IF hit = <<".">> THEN skip(pp)
            ELSE Assigned(allocAssign(d, meta[hit], kvp, rest, val, vtype, pp, cache), pp)
        Trimmed(key, pp, k) ==
            IF pp # <<>> /\ k = key THEN skip(pp)
            ELSE Found(FindEntry(meta, k), pp)
        Keyed(key, pp) == Trimmed(key, pp, TrimPrefix(key, pp))
    IN  IF HasSuffix(kvp.Key, <<"/">>) THEN skip(pathPrefix)
        ELSE Keyed(KeyOf(d, kvp.Key), KeyOf(d, pathPrefix))

\* one iteration of the main loop (lines 437-469) with kvps not empty
LoopStep(d, meta, pathPrefix, kvps, val, vtype, cache) ==
    LET kvp  == kvps[1]
        rest == Tail(kvps)
        skip(p) == [err |-> NoErr, val |-> val, rest |-> rest, cache |-> cache, prefix |-> p]
        Assigned(r, pp) ==
            [err |-> r.err, val |-> r.val, rest |-> r.rest, cache |-> r.cache,
             prefix |-> pp]
        Found(hit, pp) ==
            IF hit = <<".">> THEN skip(pp)
            ELSE Assigned(allocAssign(d, meta[hit], kvp, rest, val, vtype, pp, cache), pp)
        Trimmed(key, pp, k) ==
            IF pp # <<>> /\ k = key THEN skip(pp)
            ELSE Found(FindEntry(meta, k), pp)
        Keyed(key, pp) == Trimmed(key, pp, TrimPrefix(key, pp))
    IN  IF HasSuffix(kvp.Key, <<"/">>) THEN skip(pathPrefix)
        ELSE Keyed(KeyOf(d, kvp.Key), KeyOf(d, pathPrefix))

\* the main loop (lines 432-472)
UnmarshalLoop(d, meta, pathPrefix, kvps, val, vtype, cache) ==
    IF Len(kvps) = 0 THEN [err |-> NoErr, val |-> val, cache |-> cache]
    ELSE LET Go(s) ==
                 IF s.err # NoErr THEN [err |-> s.err, val |-> s.val, cache |-> s.cache]
                 ELSE UnmarshalLoop(d, meta, s.prefix, s.rest, s.val, vtype, s.cache)
         IN  Go(LoopStep(d, meta, pathPrefix, kvps, val, vtype, cache))

\* ValidTarget without the test that the pointer points to a record
ValidTargetAnyPointer(v) ==
    v.type.kind = "ptr" /\ v.val # NilV

\* the checks of the target (lines 410-421)
ValidTarget(v) ==
    v.type.kind = "ptr" /\ v.val # NilV /\ v.type.elem.kind = "struct"

\* lines 428-430
NormalPrefix(pathPrefix) ==
    IF ~HasSuffix(pathPrefix, <<"/">>) THEN pathPrefix \o <<"/">> ELSE pathPrefix

\* Decoder.Unmarshal; v of the result is the target argument after the call
Unmarshal(d, pathPrefix, kvps, v, cache) ==
    IF ~ValidTarget(v) THEN [err |-> InvalidValueErr, v |-> v.val, cache |-> cache]
    ELSE LET Done(r) == [err |-> r.err, v |-> PtrV(r.val), cache |-> r.cache]
             Loop(m) ==
                 IF m.err # NoErr THEN [err |-> m.err, v |-> v.val, cache |-> m.cache]
                 ELSE Done(UnmarshalLoop(d, m.tm, NormalPrefix(pathPrefix), kvps,
                                         v.val.p, v.type.elem, m.cache))
         IN  Loop(tMeta(d, v.type.elem, TRUE, cache))

(***************************************************************************)
(* The callers.  The package is a library: what it does depends on the     *)
(* record types, decoders, prefixes and pair lists of the program that     *)
(* calls it.  A client names one such program.                             *)
(***************************************************************************)
MaxPairs == 3
MaxCalls == 2
MaxGoroutines == 2

NoTag == <<>>

\* the struct tag `decoder:"text"`
Tagged(text) == (defTag :> text)

caseDecoder    == [CaseSensitive |-> TRUE, NameResolver |-> "nil", Tag |-> ""]
tagOnlyDecoder == [CaseSensitive |-> FALSE, NameResolver |-> "tagOnly", Tag |-> defTag]

KV(key, value) == [Key |-> key, Value |-> value]

\* a pointer to a fresh (zero) value of record type t, as from new(T)
NewTarget(t) == [type |-> PtrTo(t), val |-> PtrV(Zero(t))]

\* a pointer to a record of type t that already holds v
Populated(t, v) == [type |-> PtrTo(t), val |-> PtrV(v)]

\* client "ptr": TestLevel1..3 of the tests, with short names: pointers to
\* nested records, three levels deep
TL3 == StructT("main", "L3", <<Fld(<<"Z">>, NoTag, TInt)>>, "none")
TL2 == StructT("main", "L2", <<Fld(<<"Y">>, NoTag, TInt),
                               Fld(<<"Q">>, NoTag, PtrTo(TL3))>>, "none")
TL1 == StructT("main", "L1", <<Fld(<<"X">>, NoTag, TInt),
                               Fld(<<"P">>, NoTag, PtrTo(TL2))>>, "none")

PtrPairs ==
    { KV(<<"c","/","x">>, <<"7">>),
      KV(<<"c","/","p","/","y">>, <<"8">>),
      KV(<<"c","/","p","/","y">>, <<"0">>),
      KV(<<"c","/","p","/","q","/","z">>, <<"9">>),
      KV(<<"c","/","p","/","y","/","w">>, <<"5">>),
      KV(<<"c","/","p","/","q">>, <<"4">>),
      KV(<<"c","/","p","/","q","/","z">>, <<"n","o">>) }

\* targets Unmarshal refuses: a record passed by value, a nil pointer, a
\* pointer to something that is no record
InvalidTargets ==
    { [type |-> TL3, val |-> Zero(TL3)],
      [type |-> PtrTo(TL3), val |-> NilV],
      [type |-> PtrTo(TInt), val |-> PtrV(IntV(0))] }

\* client "anon": a pointer to an unnamed record type, and the same record
\* with the inner type named
TAnon == StructT("", "", <<Fld(<<"X">>, Tagged(<<"x">>), TInt)>>, "none")
TNX   == StructT("main", "NX", <<Fld(<<"X">>, Tagged(<<"x">>), TInt)>>, "none")
TA1   == StructT("main", "A1", <<Fld(<<"I","n","n","e","r">>, Tagged(<<"i","n","n","e","r">>), PtrTo(TAnon))>>, "none")
TN1   == StructT("main", "N1", <<Fld(<<"I","n","n","e","r">>, Tagged(<<"i","n","n","e","r">>), PtrTo(TNX))>>, "none")

AnonPairs ==
    { KV(<<"c","/","i","n","n","e","r","/","x">>, <<"4","2">>),
      KV(<<"c","/","i","n","n","e","r","/","x">>, <<"7">>),
      KV(<<"c","/","i","n","n","e","r","/","y">>, <<"1">>),
      KV(<<"c","/","o","t","h","e","r">>, <<"3">>) }

\* client "path": scalar fields whose names are paths
TT4 == StructT("main", "T4", <<Fld(<<"F">>, Tagged(<<"a","/","b","/","c">>), TString),
                               Fld(<<"N">>, Tagged(<<"n","/","m">>), TInt)>>, "none")

PathPairs ==
    { KV(<<"c","/","a","/","b","/","c">>, <<"x">>),
      KV(<<"c","/","a","/","b","/","c","/","d">>, <<"y">>),
      KV(<<"c","/","a","/","b">>, <<"z">>),
      KV(<<"c","/","n","/","m">>, <<"1">>),
      KV(<<"c","/","n","/","m","/","k">>, <<"2">>),
      KV(<<"c","/","n","/","m","/","k">>, <<"q">>) }

\* client "seq": a sequence of records and a sequence of plain scalars
TE  == StructT("main", "E", <<Fld(<<"F">>, Tagged(<<"f">>), TInt),
                             Fld(<<"G">>, Tagged(<<"g">>), TInt),
                             Fld(<<"H">>, Tagged(<<"h">>), TInt)>>, "none")
TS5 == StructT("main", "S5", <<Fld(<<"I","t","e","m","s">>, Tagged(<<"i","t">>), SliceOf(TE)),
                               Fld(<<"N","u","m","s">>, Tagged(<<"n">>), SliceOf(TInt))>>, "none")

SeqPairs ==
    { KV(<<"c","/","i","t","/","2","/","f">>, <<"1">>),
      KV(<<"c","/","i","t","/","2","/","g">>, <<"2">>),
      KV(<<"c","/","i","t","/","2","/","h">>, <<"7">>),
      KV(<<"c","/","i","t","/","1","/","f">>, <<"3">>),
      KV(<<"c","/","i","t","/","1","/","g">>, <<"4">>),
      KV(<<"c","/","n","/","0">>, <<"5">>),
      KV(<<"c","/","n","/","1">>, <<"6">>) }

\* client "err": one field for each way a pair can fail
TTU == StructT("main", "TU", <<Fld(<<"A">>, NoTag, TString),
                               Fld(<<"B">>, NoTag, TString)>>, "pointer")
TR6 == StructT("main", "R6", <<Fld(<<"N">>, Tagged(<<"n">>), TInt),
                               Fld(<<"P">>, Tagged(<<"p">>), PtrTo(TL3)),
                               Fld(<<"J">>, Tagged(<<"j",",","j","s","o","n">>), SliceOf(TInt)),
                               Fld(<<"T">>, Tagged(<<"t">>), PtrTo(TTU)),
                               Fld(<<"I","t">>, Tagged(<<"i","t">>), SliceOf(TE))>>, "none")

ErrPairs ==
    { KV(<<"c","/","n">>, <<"1">>),
      KV(<<"c","/","n">>, <<"x">>),
      KV(<<"c","/","p","/","z">>, <<"3">>),
      KV(<<"c","/","p","/","z">>, <<"x">>),
      KV(<<"c","/","j">>, <<"[","1","]">>),
      KV(<<"c","/","j">>, <<"[","x">>),
      KV(<<"c","/","t">>, <<"a",":","b">>),
      KV(<<"c","/","t">>, <<"a","b">>),
      KV(<<"c","/","i","t","/","1","/","f">>, <<"2">>),
      KV(<<"c","/","i","t","/","1","/","f">>, <<"x">>) }

\* client "frame": pairs that match nothing, and a target already in use
TT7 == StructT("main", "T7", <<Fld(<<"A">>, Tagged(<<"a">>), TInt),
                               Fld(<<"B">>, Tagged(<<"b">>), TString),
                               Fld(<<"P">>, Tagged(<<"p">>), PtrTo(TL3))>>, "none")

T7InUse == StructV(<<IntV(5), StrV(<<"o">>), PtrV(StructV(<<IntV(3)>>))>>)

FramePairs ==
    { KV(<<"c","/","a">>, <<"1">>),
      KV(<<"c","/","b","/">>, <<"k">>),
      KV(<<"x","/","a">>, <<"9">>),
      KV(<<"a">>, <<"6">>),
      KV(<<"c","/","z","z","/","a">>, <<"4">>),
      KV(<<"c","/","p","/","z">>, <<"8">>),
      KV(<<"c","/","a","/","x">>, <<"2">>),
      KV(<<"C","/","B">>, <<"w">>) }

\* client "skip": the skip sentinel, an unexported field, a field the
\* resolver of tagOnlyDecoder gives no name
TK8 == StructT("main", "K8", <<Fld(<<"A">>, Tagged(<<"a">>), TInt),
                               Fld(<<"S">>, Tagged(<<"-">>), TInt),
                               UnexportedFld(<<"h","i","d","d","e","n">>, Tagged(<<"h">>), TInt),
                               Fld(<<"E">>, NoTag, TInt)>>, "none")

K8InUse == StructV(<<IntV(0), IntV(3), IntV(4), IntV(2)>>)

SkipPairs ==
    { KV(<<"c","/","a">>, <<"1">>),
      KV(<<"c","/","s">>, <<"5">>),
      KV(<<"c","/","-">>, <<"5">>),
      KV(<<"c","/","h","i","d","d","e","n">>, <<"6">>),
      KV(<<"c","/","h">>, <<"6">>),
      KV(<<"c","/","e">>, <<"7">>) }

\* client "case": keys and prefixes in several letter cases
TT9 == StructT("main", "T9", <<Fld(<<"N","m">>, NoTag, TString),
                               Fld(<<"T","g">>, Tagged(<<"A","b">>), TInt)>>, "none")

CasePairs ==
    { KV(<<"c","/","N","m">>, <<"v">>),
      KV(<<"c","/","n","m">>, <<"w">>),
      KV(<<"c","/","N","M">>, <<"x">>),
      KV(<<"C","/","N","m">>, <<"y">>),
      KV(<<"c","/","A","b">>, <<"1">>),
      KV(<<"c","/","a","b">>, <<"2">>) }

\* client "json": the json modifier on fields of every kind
TTJ == StructT("main", "TJ", <<Fld(<<"R">>, Tagged(<<"r",",","j","s","o","n">>), TE),
                               Fld(<<"Q">>, Tagged(<<"q",",","j","s","o","n">>), PtrTo(TE)),
                               Fld(<<"L">>, Tagged(<<"l",",","j","s","o","n">>), SliceOf(TInt)),
                               Fld(<<"M">>, Tagged(<<"m",",","j","s","o","n">>), MapOf(TString, TInt)),
                               Fld(<<"S">>, Tagged(<<"s",",","j","s","o","n">>), TString)>>, "none")

JSONPairs ==
    { KV(<<"c","/","r">>, <<"{","\"","f","\"",":","1","}">>),
      KV(<<"c","/","q">>, <<"{","\"","g","\"",":","2","}">>),
      KV(<<"c","/","l">>, <<"[","1",",","2","]">>),
      KV(<<"c","/","l">>, <<"[","3","]">>),
      KV(<<"c","/","m">>, <<"{","\"","k","\"",":","1","}">>),
      KV(<<"c","/","s">>, <<"\"","h","i","\"">>),
      KV(<<"c","/","s">>, <<"\"","y","o","\"">>) }

\* client "csv": delimited sequences, with pointers around the sequence and
\* around its elements
TCsv == StructT("main", "Csv",
                <<Fld(<<"C","s">>, Tagged(<<"c","s",",","c","s","v">>), SliceOf(TInt)),
                  Fld(<<"S","s">>, Tagged(<<"s","s",",","s","s","v">>),
                      PtrTo(SliceOf(PtrTo(TInt)))),
                  Fld(<<"S","t">>, Tagged(<<"s","t",",","c","s","v">>), SliceOf(TString)),
                  Fld(<<"D","d">>, Tagged(<<"d","d",",","c","s","v">>),
                      SliceOf(PtrTo(PtrTo(TInt))))>>, "none")

CsvPairs ==
    { KV(<<"c","/","c","s">>, <<"1",",","2">>),
      KV(<<"c","/","c","s">>, <<"1",",","x">>),
      KV(<<"c","/","s","s">>, <<"5"," "," ","6">>),
      KV(<<"c","/","s","s">>, <<"5"," ","y">>),
      KV(<<"c","/","s","t">>, <<"\"","a",",","b","\"",",","c">>),
      KV(<<"c","/","s","t">>, <<"a","\"","b">>),
      KV(<<"c","/","d","d">>, <<"7">>) }

\* client "bad": records with a field B of a type the compiler refuses, or
\* of a type near it that the compiler accepts
TBad(name, tag, ft) ==
    StructT("main", name, <<Fld(<<"A">>, Tagged(<<"a">>), TInt),
                            Fld(<<"B">>, Tagged(tag), ft)>>, "none")

BadTargets ==
    LET byte == BasicT("uint", 8, "uint8")
        json == <<"b",",","j","s","o","n">>
        SS   == TBad("SS", <<"b">>, SliceOf(SliceOf(TInt)))
    IN  { NewTarget(SS),
          NewTarget(TBad("PS", <<"b">>, SliceOf(PtrTo(SliceOf(TInt))))),
          NewTarget(TBad("MM", <<"b">>, MapOf(TString, MapOf(TString, TInt)))),
          NewTarget(TBad("MK", <<"b">>, MapOf(TInt, TString))),
          NewTarget(TBad("NS", <<"b">>, SS)),
          NewTarget(TBad("SB", <<"b">>, SliceOf(SliceOf(byte)))),
          NewTarget(TBad("SJ", json, SliceOf(SliceOf(TInt)))),
          NewTarget(TBad("MJ", json, MapOf(TString, MapOf(TString, TInt)))),
          NewTarget(TBad("KJ", json, MapOf(TInt, TString))) }

\* client "reuse": TestReusedStruct and TestReusesStruct of the tests, one
\* nested record type behind two fields
TestReusedStruct ==
    StructT("main", "TestReusedStruct", <<Fld(<<"F","i","e","l","d">>, NoTag, TString)>>,
            "none")
TestReusesStruct ==
    StructT("main", "TestReusesStruct", <<Fld(<<"S","1">>, NoTag, TestReusedStruct),
                                          Fld(<<"S","2">>, NoTag, TestReusedStruct)>>,
            "none")

ReusePairs ==
    { KV(<<"c","/","s","1","/","f","i","e","l","d">>, <<"v","1">>),
      KV(<<"c","/","s","2","/","f","i","e","l","d">>, <<"v","2">>),
      KV(<<"c","/","s","1","/","f","i","e","l","d">>, <<"w">>),
      KV(<<"c","/","f","i","e","l","d">>, <<"z">>) }

\* client "walk": the mapping A is the entry a and the number B is the entry
\* a/b, so that a key under a/b has two ancestors in the schema
TWalk ==
    StructT("main", "Walk",
            <<Fld(<<"A">>, Tagged(<<"a">>), MapOf(TString, TInt)),
              Fld(<<"B">>, Tagged(<<"a","/","b">>), TInt)>>, "none")

\* client "coll": sequences and mappings of text-decodable values, of
\* scalars and of records, at the top of the target and inside the nested
\* record O
TColl ==
    LET TO == StructT("main", "O",
                      <<Fld(<<"M">>, Tagged(<<"m">>), MapOf(TString, TInt)),
                        Fld(<<"I","t">>, Tagged(<<"i","t">>), SliceOf(TE))>>, "none")
    IN  StructT("main", "Coll",
                <<Fld(<<"T">>, Tagged(<<"t">>), PtrTo(TTU)),
                  Fld(<<"T","s">>, Tagged(<<"t","s">>), SliceOf(PtrTo(TTU))),
                  Fld(<<"T","m">>, Tagged(<<"t","m">>), MapOf(TString, PtrTo(TTU))),
                  Fld(<<"M">>, Tagged(<<"m">>), MapOf(TString, TInt)),
                  Fld(<<"I","t">>, Tagged(<<"i","t">>), SliceOf(TE)),
                  Fld(<<"O">>, Tagged(<<"o">>), TO)>>, "none")

CollPairs ==
    { KV(<<"c","/","t">>, <<"a",":","b">>),
      KV(<<"c","/","t">>, <<"a","b">>),
      KV(<<"c","/","t","s","/","0">>, <<"a",":","b">>),
      KV(<<"c","/","t","s","/","1">>, <<"a","b">>),
      KV(<<"c","/","t","m","/","k","1">>, <<"a",":","b">>),
      KV(<<"c","/","m","/","k","1">>, <<"1">>),
      KV(<<"c","/","m","/","k","2">>, <<"2">>),
      KV(<<"c","/","m","/","k","1","/","x">>, <<"3">>),
      KV(<<"c","/","o","/","m","/","k","1">>, <<"4">>),
      KV(<<"c","/","o","/","m","/","k","2">>, <<"5">>),
      KV(<<"c","/","i","t","/","1","/","f">>, <<"1">>),
      KV(<<"c","/","i","t","/","1","/","g">>, <<"2">>),
      KV(<<"c","/","o","/","i","t","/","1","/","f">>, <<"1">>),
      KV(<<"c","/","o","/","i","t","/","1","/","g">>, <<"2">>) }

\* client "twice": one pair for each field of a record with a scalar, a json
\* field, a mapping and a plain, a delimited and a record sequence
TwicePairs ==
    { KV(<<"c","/","n">>, <<"1">>),
      KV(<<"c","/","j">>, <<"{","\"","f","\"",":","1","}">>),
      KV(<<"c","/","m","/","k">>, <<"3">>),
      KV(<<"c","/","s","/","0">>, <<"2">>),
      KV(<<"c","/","d">>, <<"1",",","2">>),
      KV(<<"c","/","r","/","1","/","f">>, <<"1">>) }

Clients == {"ptr", "anon", "path", "seq", "err", "frame", "skip", "case", "json",
            "csv", "bad", "reuse", "coll", "walk", "mix", "deep", "num", "twice",
            "mapcase"}

ClientDecoders(c) ==
    CASE c = "skip" -> {defaultDecoder, tagOnlyDecoder}
      [] c = "case" -> {defaultDecoder, caseDecoder}
      [] c = "mapcase" -> {defaultDecoder, caseDecoder}
      [] OTHER      -> {defaultDecoder}

ClientTargets(c) ==
    CASE c = "ptr"   -> {NewTarget(TL1)} \cup InvalidTargets
      [] c = "anon"  -> {NewTarget(TA1), NewTarget(TN1)}
      [] c = "path"  -> {NewTarget(TT4)}
      [] c = "seq"   -> {NewTarget(TS5)}
      [] c = "err"   -> {NewTarget(TR6)}
      [] c = "frame" -> {NewTarget(TT7), Populated(TT7, T7InUse)}
      [] c = "skip"  -> {NewTarget(TK8), Populated(TK8, K8InUse)}
      [] c = "case"  -> {NewTarget(TT9)}
      [] c = "json"  -> {NewTarget(TTJ)}
      [] c = "csv"   -> {NewTarget(TCsv)}
      [] c = "bad"   -> BadTargets
      [] c = "coll"  -> {NewTarget(TColl)}
      [] c = "walk"  -> {NewTarget(TWalk)}
      [] c = "num"   ->
           \* integer fields narrower than 64 bits
           {NewTarget(StructT("main", "Num",
                              <<Fld(<<"I","8">>, Tagged(<<"i","8">>), BasicT("int", 8, "int8")),
                                Fld(<<"U","8">>, Tagged(<<"u","8">>), BasicT("uint", 8, "uint8")),
                                Fld(<<"I","1","6">>, Tagged(<<"i","1","6">>),
                                    BasicT("int", 16, "int16"))>>, "none"))}
      [] c = "twice" ->
           \* the record of TwicePairs, new and as each call with different
           \* pairs leaves it
           LET Twice == StructT("main", "Twice",
                                <<Fld(<<"N">>, Tagged(<<"n">>), TInt),
                                  Fld(<<"J">>, Tagged(<<"j",",","j","s","o","n">>), TE),
                                  Fld(<<"M">>, Tagged(<<"m">>), MapOf(TString, TInt)),
                                  Fld(<<"S">>, Tagged(<<"s">>), SliceOf(TInt)),
                                  Fld(<<"D">>, Tagged(<<"d",",","c","s","v">>),
                                      SliceOf(TInt)),
                                  Fld(<<"R">>, Tagged(<<"r">>), SliceOf(TE))>>, "none")
               Lists == UNION {[1..n -> TwicePairs] : n \in 0..MaxPairs}
               Once  == {ps \in Lists : \A i, j \in 1..Len(ps) : ps[i] = ps[j] => i = j}
           IN  {NewTarget(Twice)} \cup
               {[type |-> PtrTo(Twice),
                 val  |-> Unmarshal(defaultDecoder, <<"c">>, ps, NewTarget(Twice),
                                    EmptyMap).v] : ps \in Once}
      [] c = "mapcase" ->
           \* a mapping at the top of the target and one in a nested record
           {NewTarget(StructT("main", "MapCase",
                              <<Fld(<<"M">>, Tagged(<<"m">>), MapOf(TString, TInt)),
                                Fld(<<"O">>, Tagged(<<"o">>),
                                    StructT("main", "MapCaseO",
                                            <<Fld(<<"M">>, Tagged(<<"m">>),
                                                  MapOf(TString, TInt))>>, "none"))>>,
                              "none"))}
      [] c = "deep"  ->
           \* sequences of records two levels deep, and the record types of
           \* the levels on their own
           LET Mid == StructT("main", "Mid",
                              <<Fld(<<"E","s">>, Tagged(<<"e","s">>), SliceOf(TE)),
                                Fld(<<"N">>, Tagged(<<"n">>), TInt)>>, "none")
           IN  { NewTarget(StructT("main", "Deep",
                                   <<Fld(<<"M","s">>, Tagged(<<"m","s">>), SliceOf(Mid))>>,
                                   "none")),
                 NewTarget(Mid), NewTarget(TE) }
      [] c = "mix"   ->
           LET byte == BasicT("uint", 8, "uint8")
               csv  == <<"b",",","c","s","v">>
               json == <<"b",",","j","s","o","n">>
           IN  { \* a sequence layer and a mapping layer in one field
                 NewTarget(TBad("SM", <<"b">>, SliceOf(MapOf(TString, TInt)))),
                 NewTarget(TBad("MS", <<"b">>, MapOf(TString, SliceOf(TInt)))),
                 \* the delimited styles on fields of every kind
                 NewTarget(TBad("CS", csv, SliceOf(TInt))),
                 NewTarget(TBad("CI", csv, TInt)),
                 NewTarget(TBad("CR", csv, TE)),
                 NewTarget(TBad("CM", csv, MapOf(TString, TInt))),
                 NewTarget(TBad("CB", csv, SliceOf(byte))),
                 NewTarget(TBad("CJ", <<"b",",","j","s","o","n",",","c","s","v">>,
                                SliceOf(TInt))),
                 NewTarget(TBad("SI", <<"b",",","s","s","v">>, TString)),
                 \* pointer layers around a json field and around the elements
                 NewTarget(TBad("J0", json, TE)),
                 NewTarget(TBad("J1", json, PtrTo(TE))),
                 NewTarget(TBad("J2", json, PtrTo(PtrTo(TE)))),
                 NewTarget(TBad("P0", <<"b">>, SliceOf(TInt))),
                 NewTarget(TBad("P1", <<"b">>, SliceOf(PtrTo(TInt)))),
                 NewTarget(TBad("P2", <<"b">>, SliceOf(PtrTo(PtrTo(TInt))))),
                 NewTarget(TBad("Q0", <<"b">>, MapOf(TString, TInt))),
                 NewTarget(TBad("Q1", <<"b">>, MapOf(TString, PtrTo(TInt)))),
                 NewTarget(TBad("Q2", <<"b">>, MapOf(TString, PtrTo(PtrTo(TInt))))),
                 \* a nested record that compiles before a field that does not
                 NewTarget(StructT("main", "NF",
                                   <<Fld(<<"A">>, Tagged(<<"a">>), TL3),
                                     Fld(<<"B">>, Tagged(<<"b">>),
                                         SliceOf(SliceOf(TInt)))>>, "none")) }
      [] c = "reuse" -> {NewTarget(TestReusesStruct), NewTarget(TestReusedStruct)}

ClientPrefixes(c) ==
    CASE c = "case" -> {<<"c">>, <<"C">>}
      [] c = "deep" -> {<<"c">>, <<"c","/","m","s","/","1">>,
                        <<"c","/","m","s","/","1","/","e","s","/","1">>}
      [] OTHER      -> {<<"c">>}

ClientPairs(c) ==
    CASE c = "ptr"   -> PtrPairs
      [] c = "anon"  -> AnonPairs
      [] c = "path"  -> PathPairs
      [] c = "seq"   -> SeqPairs
      [] c = "err"   -> ErrPairs
      [] c = "frame" -> FramePairs
      [] c = "skip"  -> SkipPairs
      [] c = "case"  -> CasePairs
      [] c = "json"  -> JSONPairs
      [] c = "csv"   -> CsvPairs
      [] c = "reuse" -> ReusePairs
      [] c = "coll"  -> CollPairs
      [] c = "walk"  -> { KV(<<"c","/","a","/","b">>, <<"1">>),
                          KV(<<"c","/","a","/","b","/","x">>, <<"2">>),
                          KV(<<"c","/","a","/","k">>, <<"3">>),
                          KV(<<"c","/","a","/","k","/","x">>, <<"4">>),
                          KV(<<"c","/","z","/","y">>, <<"5">>) }
      [] c = "num"   -> { KV(<<"c","/","i","8">>, <<"2","0","0">>),
                          KV(<<"c","/","i","8">>, <<"-","1","2","9">>),
                          KV(<<"c","/","i","8">>, <<"1","2","7">>),
                          KV(<<"c","/","i","8">>, <<"x">>),
                          KV(<<"c","/","u","8">>, <<"3","0","0">>),
                          KV(<<"c","/","u","8">>, <<"-","1">>),
                          KV(<<"c","/","u","8">>, <<"2","5","5">>),
                          KV(<<"c","/","i","1","6">>, <<"4","0","0","0","0">>),
                          KV(<<"c","/","i","1","6">>, <<"-","1">>),
                          KV(<<"c","/","i","1","6">>, <<"2","0","0">>) }
      [] c = "twice" -> TwicePairs
      [] c = "mapcase" -> { KV(<<"c","/","m","/","K","e","y">>, <<"1">>),
                            KV(<<"c","/","m","/","k","e","y">>, <<"2">>),
                            KV(<<"c","/","m","/","K","E","Y","/","x">>, <<"3">>),
                            KV(<<"c","/","o","/","m","/","K","e","y">>, <<"4">>) }
      [] c = "deep"  -> { KV(<<"c","/","m","s","/","1","/","e","s","/","1","/","f">>, <<"1">>),
                          KV(<<"c","/","m","s","/","1","/","e","s","/","1","/","g">>, <<"2">>),
                          KV(<<"c","/","m","s","/","1","/","n">>, <<"3">>),
                          KV(<<"c","/","m","s","/","2","/","n">>, <<"4">>) }
      [] c = "mix"   -> { KV(<<"c","/","b","/","k">>, <<"7">>),
                          KV(<<"c","/","b">>, <<"{","\"","f","\"",":","1","}">>),
                          KV(<<"c","/","b">>, <<"1",",","2">>) }
      [] c = "bad"   -> { KV(<<"c","/","a">>, <<"1">>),
                          KV(<<"c","/","b","/","k">>, <<"h","i">>) }

PairLists(c) == UNION {[1..n -> ClientPairs(c)] : n \in 0..MaxPairs}

(***************************************************************************)
(* The state machine: the process-wide cache and one caller at a time      *)
(* going through Decoder.Unmarshal, one iteration of its main loop per     *)
(* step.  arg and cache0 remember the arguments of the call in progress    *)
(* and the cache it started from; compiledBy remembers the decoder whose   *)
(* call inserted each cache entry.                                         *)
(*                                                                         *)
(* Goroutines that call Unmarshal at the same time meet in                 *)
(* typeCacheManager.tMeta: lck is tcm.lck (the goroutine that holds it for *)
(* writing, 0 for none, and the goroutines that hold it for reading), gor  *)
(* is the position of each goroutine in tMeta with its arguments and       *)
(* results (hit: the lookup found the type), compiles counts the calls of parseStruct that returned a       *)
(* TypeMeta for each type key.                                             *)
(***************************************************************************)
VARIABLES client, typeNameMetaMap, compiledBy, pc, d, pathPrefix, kvps, val,
          vtype, meta, err, arg, cache0, calls, lck, gor, compiles

vars == <<client, typeNameMetaMap, compiledBy, pc, d, pathPrefix, kvps, val,
          vtype, meta, err, arg, cache0, calls, lck, gor, compiles>>

NoArg == [prefix |-> <<>>, kvps |-> <<>>, v |-> [type |-> TChan, val |-> NilV]]

Idle ==
    /\ pc = "idle"
    /\ d = defaultDecoder
    /\ pathPrefix = <<>>
    /\ kvps = <<>>
    /\ val = NilV
    /\ vtype = TChan
    /\ meta = EmptyMap
    /\ err = NoErr
    /\ arg = NoArg
    /\ cache0 = EmptyMap

InitClient(cs) ==
    /\ client \in cs
    /\ typeNameMetaMap = EmptyMap
    /\ compiledBy = EmptyMap
    /\ calls = 0
    /\ Idle
    /\ lck = [writer |-> 0, readers |-> {}]
    /\ gor = [g \in 1..MaxGoroutines |->
                 [pc |-> "idle", d |-> defaultDecoder, t |-> TChan, meta |-> EmptyMap,
                  err |-> NoErr, hit |-> FALSE, n |-> 0]]
    /\ compiles = EmptyMap

\* the entries a call adds to the cache are the work of its decoder
Compiled(by, cache, dd) ==
    [tk \in DOMAIN cache |-> IF tk \in DOMAIN by THEN by[tk] ELSE dd]

\* Decoder.Unmarshal up to its main loop (lines 410-430)
Call ==
    /\ pc = "idle"
    /\ calls < MaxCalls
    /\ \E dd \in ClientDecoders(client), pre \in ClientPrefixes(client),
          ps \in PairLists(client), v \in ClientTargets(client) :
          LET Enter(m) ==
              /\ d' = dd
              /\ arg' = [prefix |-> pre, kvps |-> ps, v |-> v]
              /\ cache0' = typeNameMetaMap
              /\ kvps' = ps
              /\ calls' = calls + 1
              /\ IF ~ValidTarget(v)
                 THEN /\ err' = InvalidValueErr
                      /\ pc' = "done"
                      /\ val' = v.val
                      /\ vtype' = v.type
                      /\ UNCHANGED <<typeNameMetaMap, compiledBy, meta, pathPrefix>>
                 ELSE /\ typeNameMetaMap' = m.cache
                      /\ compiledBy' = Compiled(compiledBy, m.cache, dd)
                      /\ err' = m.err
                      /\ pc' = IF m.err # NoErr THEN "done" ELSE "loop"
                      /\ meta' = m.tm
                      /\ val' = v.val.p
                      /\ vtype' = v.type.elem
                      /\ pathPrefix' = IF m.err # NoErr THEN pathPrefix
                                       ELSE NormalPrefix(pre)
          IN  Enter(IF ValidTarget(v)
                    THEN tMeta(dd, v.type.elem, TRUE, typeNameMetaMap)
                    ELSE Result(InvalidValueErr, EmptyMap, typeNameMetaMap))
    /\ UNCHANGED <<client, lck, gor, compiles>>

\* Step undoing the call's assignments when the pair fails
StepRollback ==
    /\ pc = "loop"
    /\ Len(kvps) > 0
    /\ LET Iterate(s) ==
           /\ val' = IF s.err # NoErr THEN arg.v.val.p ELSE s.val
           /\ kvps' = s.rest
           /\ pathPrefix' = s.prefix
           /\ typeNameMetaMap' = s.cache
           /\ compiledBy' = Compiled(compiledBy, s.cache, d)
           /\ err' = s.err
           /\ pc' = IF s.err # NoErr THEN "done" ELSE "loop"
       IN  Iterate(LoopStep(d, meta, pathPrefix, kvps, val, vtype, typeNameMetaMap))
    /\ UNCHANGED <<client, d, vtype, meta, arg, cache0, calls, lck, gor, compiles>>

\* one iteration of the main loop (lines 437-469)
Step ==
    /\ pc = "loop"
    /\ Len(kvps) > 0
    /\ LET Iterate(s) ==
           /\ val' = s.val
           /\ kvps' = s.rest
           /\ pathPrefix' = s.prefix
           /\ typeNameMetaMap' = s.cache
           /\ compiledBy' = Compiled(compiledBy, s.cache, d)
           /\ err' = s.err
           /\ pc' = IF s.err # NoErr THEN "done" ELSE "loop"
       IN  Iterate(LoopStep(d, meta, pathPrefix, kvps, val, vtype, typeNameMetaMap))
    /\ UNCHANGED <<client, d, vtype, meta, arg, cache0, calls, lck, gor, compiles>>

\* the loop ends (lines 433-435, 472)
Return ==
    /\ pc = "loop"
    /\ Len(kvps) = 0
    /\ pc' = "done"
    /\ UNCHANGED <<client, typeNameMetaMap, compiledBy, d, pathPrefix, kvps, val,
                   vtype, meta, err, arg, cache0, calls, lck, gor, compiles>>

\* the caller goes on; the cache stays
Finish ==
    /\ pc = "done"
    /\ pc' = "idle"
    /\ d' = defaultDecoder
    /\ pathPrefix' = <<>>
    /\ kvps' = <<>>
    /\ val' = NilV
    /\ vtype' = TChan
    /\ meta' = EmptyMap
    /\ err' = NoErr
    /\ arg' = NoArg
    /\ cache0' = EmptyMap
    /\ UNCHANGED <<client, typeNameMetaMap, compiledBy, calls, lck, gor, compiles>>

Next == Call \/ Step \/ Return \/ Finish

Init == InitClient(Clients)

Spec == Init /\ [][Next]_vars

\* one specification for each calling program
SpecPtr   == InitClient({"ptr"}) /\ [][Next]_vars
SpecAnon  == InitClient({"anon"}) /\ [][Next]_vars
SpecPath  == InitClient({"path"}) /\ [][Next]_vars
SpecSeq   == InitClient({"seq"}) /\ [][Next]_vars
SpecErr   == InitClient({"err"}) /\ [][Next]_vars
SpecFrame == InitClient({"frame"}) /\ [][Next]_vars
SpecSkip  == InitClient({"skip"}) /\ [][Next]_vars
SpecCase  == InitClient({"case"}) /\ [][Next]_vars
SpecJSON  == InitClient({"json"}) /\ [][Next]_vars
SpecCsv   == InitClient({"csv"}) /\ [][Next]_vars
SpecBad   == InitClient({"bad"}) /\ [][Next]_vars
SpecReuse == InitClient({"reuse"}) /\ [][Next]_vars
SpecColl  == InitClient({"coll"}) /\ [][Next]_vars
SpecWalk  == InitClient({"walk"}) /\ [][Next]_vars
SpecMix   == InitClient({"mix"}) /\ [][Next]_vars
SpecNum   == InitClient({"num"}) /\ [][Next]_vars
SpecTwice == InitClient({"twice"}) /\ [][Next]_vars
SpecMapCase == InitClient({"mapcase"}) /\ [][Next]_vars

\* a call that has started goes on: the loop of Unmarshal runs in the
\* goroutine of the caller and waits for nothing.  The second conjunct is
\* the weak fairness of Step with its enabling condition, the guard of the
\* action, written out.
SpecDeepLive ==
    /\ InitClient({"deep"}) /\ [][Next]_vars
    /\ WF_vars(Return)
    /\ (<>[](pc = "loop" /\ Len(kvps) > 0) => []<><<Step>>_vars)

(***************************************************************************)
(* typeCacheManager.tMeta(d, t, true) step by step, for goroutines that    *)
(* call Unmarshal concurrently                                             *)
(***************************************************************************)
\* Lock taking tcm.lck without waiting for it to be free
LockNoWait(g) ==
    /\ gor[g].pc = "idle"
    /\ gor[g].n < MaxCalls
    /\ \E dd \in {defaultDecoder, caseDecoder}, t \in {TL1, TL2, TA1, TAnon} :
          gor' = [gor EXCEPT ![g] = [pc |-> "lookup", d |-> dd, t |-> t,
                                     meta |-> EmptyMap, err |-> NoErr,
                                     hit |-> FALSE, n |-> gor[g].n + 1]]
    /\ lck' = [lck EXCEPT !.writer = g]
    /\ UNCHANGED <<client, typeNameMetaMap, compiledBy, pc, d, pathPrefix, kvps, val,
                   vtype, meta, err, arg, cache0, calls, compiles>>

\* Unmarshal calls tMeta with lock = true: tcm.lck.Lock() (lines 145-148)
\* returns when no goroutine holds the lock
Lock(g) ==
    /\ gor[g].pc = "idle"
    /\ gor[g].n < MaxCalls
    /\ lck.writer = 0
    /\ lck.readers = {}
    /\ \E dd \in {defaultDecoder, caseDecoder}, t \in {TL1, TL2, TA1, TAnon} :
          gor' = [gor EXCEPT ![g] = [pc |-> "lookup", d |-> dd, t |-> t,
                                     meta |-> EmptyMap, err |-> NoErr,
                                     hit |-> FALSE, n |-> gor[g].n + 1]]
    /\ lck' = [lck EXCEPT !.writer = g]
    /\ UNCHANGED <<client, typeNameMetaMap, compiledBy, pc, d, pathPrefix, kvps, val,
                   vtype, meta, err, arg, cache0, calls, compiles>>

\* the type key and the cache lookup (lines 149-155)
Lookup(g) ==
    /\ gor[g].pc = "lookup"
    /\ LET tk == typeKey(gor[g].t)
       IN  gor' = [gor EXCEPT ![g] =
                      IF tk = ""
                      THEN [@ EXCEPT !.pc = "unlock", !.err = "type cannot be determined"]
                      ELSE IF tk \in DOMAIN typeNameMetaMap
                      THEN [@ EXCEPT !.pc = "unlock", !.meta = typeNameMetaMap[tk],
                                     !.hit = TRUE]
                      ELSE [@ EXCEPT !.pc = "compile"]]
    /\ UNCHANGED <<client, typeNameMetaMap, compiledBy, pc, d, pathPrefix, kvps, val,
                   vtype, meta, err, arg, cache0, calls, lck, compiles>>

\* the cache miss (lines 156-161): parseStruct, which compiles the nested
\* record types through tMeta with lock = false, and the insertion
Compile(g) ==
    /\ gor[g].pc = "compile"
    /\ LET tk == typeKey(gor[g].t)
           Parsed(r) ==
               LET cache == IF r.err # NoErr THEN r.cache ELSE (tk :> r.tm) @@ r.cache
                   done  == (DOMAIN r.cache \ DOMAIN typeNameMetaMap)
                                \cup (IF r.err # NoErr THEN {} ELSE {tk})
               IN  /\ typeNameMetaMap' = cache
                   /\ compiledBy' = Compiled(compiledBy, cache, gor[g].d)
                   /\ compiles' = [k \in DOMAIN compiles \cup done |->
                                      (IF k \in DOMAIN compiles THEN compiles[k] ELSE 0)
                                      + (IF k \in done THEN 1 ELSE 0)]
                   /\ gor' = [gor EXCEPT ![g] =
                                 IF r.err # NoErr
                                 THEN [@ EXCEPT !.pc = "unlock", !.err = r.err]
                                 ELSE [@ EXCEPT !.pc = "unlock", !.meta = r.tm]]
       IN  Parsed(parseStruct(gor[g].d, gor[g].t, typeNameMetaMap))
    /\ UNCHANGED <<client, pc, d, pathPrefix, kvps, val, vtype, meta, err, arg, cache0,
                   calls, lck>>

\* Unlock as a call at the end of tMeta in place of the deferred one: the
\* early returns with an error leave the lock held
UnlockNoDefer(g) ==
    /\ gor[g].pc = "unlock"
    /\ gor' = [gor EXCEPT ![g].pc = "idle"]
    /\ lck' = IF gor[g].err # NoErr THEN lck ELSE [lck EXCEPT !.writer = 0]
    /\ UNCHANGED <<client, typeNameMetaMap, compiledBy, pc, d, pathPrefix, kvps, val,
                   vtype, meta, err, arg, cache0, calls, compiles>>

\* tMeta returns: the deferred tcm.lck.Unlock() (line 147)
Unlock(g) ==
    /\ gor[g].pc = "unlock"
    /\ gor' = [gor EXCEPT ![g].pc = "idle"]
    /\ lck' = [lck EXCEPT !.writer = 0]
    /\ UNCHANGED <<client, typeNameMetaMap, compiledBy, pc, d, pathPrefix, kvps, val,
                   vtype, meta, err, arg, cache0, calls, compiles>>

NextGo == \E g \in 1..MaxGoroutines : Lock(g) \/ Lookup(g) \/ Compile(g) \/ Unlock(g)

SpecGo == InitClient({"go"}) /\ [][NextGo]_vars

\* a goroutine inside tMeta goes on: the lookup, the compile and the
\* deferred Unlock wait for nothing; whether a caller calls again is up to
\* it.  The last conjunct is the weak fairness of Compile(g) with its
\* enabling condition, the guard of the action, written out.
SpecGoLive ==
    /\ InitClient({"go"}) /\ [][NextGo]_vars
    /\ \A g \in 1..MaxGoroutines :
          /\ WF_vars(Lookup(g))
          /\ WF_vars(Unlock(g))
          /\ (<>[](gor[g].pc = "compile") => []<><<Compile(g)>>_vars)

(***************************************************************************)
(* Properties                                                              *)
(***************************************************************************)
\* the largest element of a non-empty set of numbers
MaxOf(set) == CHOOSE i \in set : \A j \in set : j <= i

\* the positions of the call's pairs that satisfy Hit
Positions(Hit(_)) == {i \in 1..Len(arg.kvps) : Hit(arg.kvps[i])}

\* the raw value of the last of the call's pairs that satisfies Hit
LastValue(Hit(_)) == arg.kvps[MaxOf(Positions(Hit))].Value

\* a key is below the schema name: it is prefix/name or goes deeper
Below(key, prefix, name) ==
    /\ ~HasSuffix(key, <<"/">>)
    /\ \/ key = prefix \o <<"/">> \o name
       \/ HasPrefix(key, prefix \o <<"/">> \o name \o <<"/">>)

\* the targets Unmarshal must refuse
TargetRefused(v) ==
    v.type.kind # "ptr" \/ v.val = NilV \/ v.type.elem.kind # "struct"

\* C1: Unmarshal called with a target that is no pointer, a nil pointer or a
\* pointer to something that is no record returns InvalidValueErr, and the
\* type cache, the target and the pairs are as they were before the call.
InvalidTargetRefused ==
    (pc = "done" /\ TargetRefused(arg.v)) =>
        /\ err = InvalidValueErr
        /\ typeNameMetaMap = cache0
        /\ val = arg.v.val
        /\ kvps = arg.kvps

\* C1 happens: a refused call on a cache that holds a schema, with pairs
InvalidTargetSeen ==
    /\ pc = "done"
    /\ TargetRefused(arg.v)
    /\ err = InvalidValueErr
    /\ cache0 # EmptyMap
    /\ Len(arg.kvps) > 0

\* the number the last pair dispatched to the leaf carries, zero without one
PtrLeaf(name) ==
    LET Hit(kv) == Below(kv.Key, <<"c">>, name)
    IN  IF Positions(Hit) = {} THEN IntV(0) ELSE IntV(DecimalVal(LastValue(Hit)))

\* whether a pair of the call is dispatched to the leaf
PtrSeen(name) ==
    LET Hit(kv) == Below(kv.Key, <<"c">>, name)
    IN  Positions(Hit) # {}

\* C2: after a successful Unmarshal into a fresh L1 (X; P *L2 with Y and
\* Q *L3 with Z) a pointer is nil exactly when no pair was dispatched to a
\* leaf below it, and under an allocated pointer a leaf holds the value of
\* the last pair dispatched to it and every other leaf is zero; a pair is
\* dispatched to the leaf its key names or descends from.
PointersAllocatedOnDemand ==
    (pc = "done" /\ err = NoErr /\ arg.v = NewTarget(TL1)) =>
        LET q == IF PtrSeen(<<"p","/","q","/","z">>)
                 THEN PtrV(StructV(<<PtrLeaf(<<"p","/","q","/","z">>)>>))
                 ELSE NilV
            p == IF PtrSeen(<<"p","/","y">>) \/ PtrSeen(<<"p","/","q","/","z">>)
                 THEN PtrV(StructV(<<PtrLeaf(<<"p","/","y">>), q>>))
                 ELSE NilV
        IN  val = StructV(<<PtrLeaf(<<"x">>), p>>)

\* C2 happens: both pointers allocated for the pair of the innermost leaf,
\* the leaf between them left zero
PointersAllocatedSeen ==
    /\ pc = "done"
    /\ err = NoErr
    /\ arg.v = NewTarget(TL1)
    /\ arg.kvps = <<KV(<<"c","/","x">>, <<"7">>), KV(<<"c","/","p","/","q","/","z">>, <<"9">>)>>
    /\ val = StructV(<<IntV(7), PtrV(StructV(<<IntV(0), PtrV(StructV(<<IntV(9)>>))>>))>>)

\* C3: decoding the one pair inner/x = 42 under the prefix into a record
\* whose field Inner (tag inner) is a pointer to an unnamed record type with
\* a field X int (tag x) succeeds with Inner allocated and Inner.X = 42.
AnonymousInnerDecoded ==
    (pc = "done" /\ arg.v = NewTarget(TA1) /\ arg.kvps = <<KV(<<"c","/","i","n","n","e","r","/","x">>, <<"4","2">>)>>) =>
        /\ err = NoErr
        /\ val = StructV(<<PtrV(StructV(<<IntV(42)>>))>>)

\* the raw value of the last pair keyed by the name itself
PathField(name) ==
    LET Hit(kv) == kv.Key = <<"c", "/">> \o name
    IN  IF Positions(Hit) = {} THEN <<>> ELSE LastValue(Hit)

\* C4: with scalar fields named a/b/c and n/m, a pair for the name sets the
\* field and a pair for a key below the name (a/b/c/d, n/m/k) is ignored:
\* no error, and the fields hold what the pairs for the names themselves set.
DeeperKeyIgnored ==
    (pc = "done" /\ arg.v = NewTarget(TT4)) =>
        /\ err = NoErr
        /\ val = StructV(<<StrV(PathField(<<"a","/","b","/","c">>)),
                           IntV(DecimalVal(PathField(<<"n","/","m">>)))>>)

\* the child segment of a pair of the sequence of records
SeqChild(kv) ==
    IF HasPrefix(kv.Key, <<"c","/","i","t","/">>) THEN SplitOn(kv.Key, "/")[3] ELSE <<>>

\* the maximal contiguous runs of pairs of one child, in list order
RECURSIVE SeqRuns(_)
SeqRuns(ps) ==
    IF Len(ps) = 0 THEN <<>>
    ELSE IF SeqChild(ps[1]) = <<>> THEN SeqRuns(Tail(ps))
    ELSE LET n == MaxOf({m \in 1..Len(ps) :
                           \A i \in 1..m : SeqChild(ps[i]) = SeqChild(ps[1])})
         IN  <<SubSeq(ps, 1, n)>> \o SeqRuns(SubSeq(ps, n + 1, Len(ps)))

\* the number the last pair of the run for the leaf carries
SeqLeaf(run, leaf) ==
    LET hits == {i \in 1..Len(run) : SplitOn(run[i].Key, "/")[4] = leaf}
    IN  IF hits = {} THEN IntV(0) ELSE IntV(DecimalVal(run[MaxOf(hits)].Value))

\* the numbers of the pairs of the sequence of scalars, in list order
SeqNums(ps) ==
    LET IsNum(kv) == HasPrefix(kv.Key, <<"c","/","n","/">>)
        nums == SelectSeq(ps, IsNum)
    IN  [i \in 1..Len(nums) |-> IntV(DecimalVal(nums[i].Value))]

\* C5: the elements of a sequence field are appended in the order of the
\* pair list: every maximal contiguous run of pairs of one child of the
\* sequence of records gives one element, in the order of the runs, and every
\* pair of the sequence of scalars gives one element, in the order of the
\* pairs.
SequenceInArrivalOrder ==
    (pc = "done" /\ arg.v = NewTarget(TS5)) =>
        LET runs == SeqRuns(arg.kvps)
        IN  /\ err = NoErr
            /\ val = StructV(<<SliceV([i \in 1..Len(runs) |->
                                          StructV(<<SeqLeaf(runs[i], <<"f">>),
                                                    SeqLeaf(runs[i], <<"g">>),
                                                    SeqLeaf(runs[i], <<"h">>)>>)]),
                               SliceV(SeqNums(arg.kvps))>>)

\* after holds everything before held: what was nil may be allocated, a
\* sequence may have grown at its end, nothing else differs
RECURSIVE Keeps(_, _)
Keeps(before, after) ==
    \/ before = after
    \/ before = NilV
    \/ /\ before.k = "ptr" /\ after.k = "ptr"
       /\ Keeps(before.p, after.p)
    \/ /\ before.k = "struct" /\ after.k = "struct"
       /\ Len(before.f) = Len(after.f)
       /\ \A i \in 1..Len(before.f) : Keeps(before.f[i], after.f[i])
    \/ /\ before.k = "slice" /\ after.k = "slice"
       /\ Len(before.e) <= Len(after.e)
       /\ SubSeq(after.e, 1, Len(before.e)) = before.e

\* the errors the pairs of the caller can fail with
PairErrors ==
    { "strconv.ParseInt: invalid syntax", "json: invalid character", "invalid field" }

\* C6: when a pair fails, Unmarshal ends at once with an error of that pair
\* (a number that does not parse, a JSON text that does not parse, a text
\* UnmarshalText refuses, the error of a nested decode): no later pair is
\* applied, and the target keeps every assignment and every pointer made
\* before; nothing is rolled back.
ErrorAbortsWithoutRollback ==
    [][ /\ (pc = "loop" /\ err' # NoErr) =>
               (pc' = "done" /\ err' \in PairErrors /\ Keeps(val, val'))
        /\ (pc = "done" /\ err # NoErr) => pc' = "idle" ]_vars

\* C6 happens: the call ended on the failing second pair with the number of
\* the first pair and the pointer of the second in the target and a third
\* pair not applied
ErrorAbortSeen ==
    /\ pc = "done"
    /\ err = "strconv.ParseInt: invalid syntax"
    /\ arg.kvps = <<KV(<<"c","/","n">>, <<"1">>), KV(<<"c","/","p","/","z">>, <<"x">>), KV(<<"c","/","t">>, <<"a",":","b">>)>>
    /\ kvps = <<KV(<<"c","/","t">>, <<"a",":","b">>)>>
    /\ val = StructV(<<IntV(1), PtrV(StructV(<<IntV(0)>>)), SliceV(<<>>), NilV,
                       SliceV(<<>>)>>)

\* whether a pair of the call is dispatched to the entry
FrameSeen(name) ==
    LET Hit(kv) == Below(ToLower(kv.Key), <<"c">>, name)
    IN  Positions(Hit) # {}

\* the raw value of the last pair dispatched to the entry
FrameLast(name) ==
    LET Hit(kv) == Below(ToLower(kv.Key), <<"c">>, name)
    IN  LastValue(Hit)

\* C7: a pair whose key ends with the separator, does not begin with the
\* prefix, or names no schema entry at any ancestor level gives no error and
\* changes nothing; after the call every field no pair was dispatched to
\* holds the value it had before, and the others the value of their last
\* pair.
UnmatchedPairsChangeNothing ==
    (pc = "done" /\ arg.v.type = PtrTo(TT7)) =>
        /\ err = NoErr
        /\ val = StructV(<<
               IF FrameSeen(<<"a">>) THEN IntV(DecimalVal(FrameLast(<<"a">>)))
               ELSE arg.v.val.p.f[1],
               IF FrameSeen(<<"b">>) THEN StrV(FrameLast(<<"b">>))
               ELSE arg.v.val.p.f[2],
               IF FrameSeen(<<"p","/","z">>)
               THEN PtrV(StructV(<<IntV(DecimalVal(FrameLast(<<"p","/","z">>)))>>))
               ELSE arg.v.val.p.f[3] >>)

\* C7 happens: a target in use went through a directory marker, a key
\* outside the prefix and a key no entry matches, and is as it was
UnmatchedPairsSeen ==
    /\ pc = "done"
    /\ err = NoErr
    /\ arg.v = Populated(TT7, T7InUse)
    /\ arg.kvps = <<KV(<<"c","/","b","/">>, <<"k">>), KV(<<"x","/","a">>, <<"9">>), KV(<<"c","/","z","z","/","a">>, <<"4">>)>>
    /\ val = T7InUse

\* the fields of K8 (from 1) the compiling decoder gives no entry
SkippedFields(by) ==
    IF by.NameResolver = "tagOnly" THEN {2, 3, 4} ELSE {2, 3}

\* C8: in the schema a decoder compiled for K8, the field of the skip
\* sentinel, the field without a name and the unexported field have no entry,
\* and no pair changes them, a pair keyed by the field's own name included.
SkippedFieldsUntouched ==
    (pc \in {"loop", "done"} /\ arg.v.type = PtrTo(TK8)
        /\ "main.K8" \in DOMAIN typeNameMetaMap) =>
        \A i \in SkippedFields(compiledBy["main.K8"]) :
            /\ val.f[i] = arg.v.val.p.f[i]
            /\ \A n \in DOMAIN typeNameMetaMap["main.K8"] :
                   typeNameMetaMap["main.K8"][n].locators[1].ind # i - 1

\* C8 happens: pairs keyed by the names of the three fields went by
SkippedFieldsSeen ==
    /\ pc = "done"
    /\ err = NoErr
    /\ compiledBy["main.K8"] = tagOnlyDecoder
    /\ arg.v = Populated(TK8, K8InUse)
    /\ arg.kvps = <<KV(<<"c","/","s">>, <<"5">>), KV(<<"c","/","h","i","d","d","e","n">>, <<"6">>), KV(<<"c","/","e">>, <<"7">>)>>
    /\ val = K8InUse

\* the pairs with lower-cased keys
LowerPairs(ps) == [i \in 1..Len(ps) |-> KV(ToLower(ps[i].Key), ps[i].Value)]

\* the raw value of the last pair whose key is prefix/name under Same
CaseField(name, Same(_, _)) ==
    LET Hit(kv) == Same(kv.Key, arg.prefix \o <<"/">> \o name)
    IN  IF Positions(Hit) = {} THEN <<>> ELSE LastValue(Hit)

\* equal up to letter case
SameFolded(a, b) == ToLower(a) = ToLower(b)

\* equal letter for letter
SameExact(a, b) == a = b

\* C9: with CaseSensitive false the letter case of the prefix and of the
\* keys does not matter: the call gives what it gives on the lower-cased
\* prefix and keys, and a field holds the value of the last pair whose key
\* is prefix/name up to letter case.  With CaseSensitive true a field holds
\* the value of the last pair whose key is prefix/name letter for letter.
\* The names are those of the schema in use, compiled by a decoder of the
\* same case rule.
CaseRule ==
    (pc = "done" /\ arg.v = NewTarget(TT9)) =>
        /\ ~d.CaseSensitive =>
               LET Lowered(r) == err = r.err /\ val = r.v.p
               IN  Lowered(Unmarshal(d, ToLower(arg.prefix), LowerPairs(arg.kvps),
                                     arg.v, cache0))
        /\ (~d.CaseSensitive /\ ~compiledBy["main.T9"].CaseSensitive) =>
               /\ err = NoErr
               /\ val = StructV(<<StrV(CaseField(<<"N","m">>, SameFolded)),
                                  IntV(DecimalVal(CaseField(<<"A","b">>, SameFolded)))>>)
        /\ (d.CaseSensitive /\ compiledBy["main.T9"].CaseSensitive) =>
               /\ err = NoErr
               /\ val = StructV(<<StrV(CaseField(<<"N","m">>, SameExact)),
                                  IntV(DecimalVal(CaseField(<<"A","b">>, SameExact)))>>)

\* C9 happens: the default decoder, called with prefix C, assigned the pair
\* keyed c/NM to the field Nm
CaseFoldSeen ==
    /\ pc = "done"
    /\ d = defaultDecoder
    /\ arg.prefix = <<"C">>
    /\ arg.kvps = <<KV(<<"c","/","N","M">>, <<"x">>)>>
    /\ val = StructV(<<StrV(<<"x">>), IntV(0)>>)

\* the JSON value of the last pair of field i, its zero value without one
JSONField(i, name) ==
    LET Hit(kv) == kv.Key = <<"c", "/">> \o name
    IN  IF Positions(Hit) = {} THEN Zero(TTJ.fields[i].Type)
        ELSE JSONUnmarshal(LastValue(Hit), TTJ.fields[i].Type).v

\* C10: every field with the json modifier, a record, a pointer to a record,
\* a sequence, a mapping or a scalar, holds after the call the JSON value of
\* its last pair, parsed into a fresh value of the field's type.
JSONForEveryType ==
    (pc = "done" /\ arg.v = NewTarget(TTJ)) =>
        /\ err = NoErr
        /\ val = StructV(<<JSONField(1, <<"r">>), JSONField(2, <<"q">>),
                           JSONField(3, <<"l">>), JSONField(4, <<"m">>),
                           JSONField(5, <<"s">>)>>)

\* the elements of the sequence field i of record v, none while the field
\* or the pointer to it is nil
CsvElems(v, i) ==
    IF v.f[i] = NilV THEN <<>>
    ELSE IF v.f[i].k = "ptr" THEN v.f[i].p.e
    ELSE v.f[i].e

\* what each pair of the "csv" caller stands for: the field it matches and
\* the elements of its tokens in token order, or ok = FALSE when the text
\* does not tokenize or a token is no value of the element kind
CsvWant(kv) ==
    CASE kv = KV(<<"c","/","c","s">>, <<"1",",","2">>) ->
             [field |-> 1, ok |-> TRUE, elems |-> <<IntV(1), IntV(2)>>]
      [] kv = KV(<<"c","/","c","s">>, <<"1",",","x">>) ->
             [field |-> 1, ok |-> FALSE, elems |-> <<>>]
      [] kv = KV(<<"c","/","s","s">>, <<"5"," "," ","6">>) ->
             [field |-> 2, ok |-> TRUE, elems |-> <<PtrV(IntV(5)), PtrV(IntV(6))>>]
      [] kv = KV(<<"c","/","s","s">>, <<"5"," ","y">>) ->
             [field |-> 2, ok |-> FALSE, elems |-> <<>>]
      [] kv = KV(<<"c","/","s","t">>, <<"\"","a",",","b","\"",",","c">>) ->
             [field |-> 3, ok |-> TRUE, elems |-> <<StrV(<<"a",",","b">>), StrV(<<"c">>)>>]
      [] kv = KV(<<"c","/","s","t">>, <<"a","\"","b">>) ->
             [field |-> 3, ok |-> FALSE, elems |-> <<>>]
      [] kv = KV(<<"c","/","d","d">>, <<"7">>) ->
             [field |-> 4, ok |-> TRUE, elems |-> <<PtrV(PtrV(IntV(7)))>>]

\* C11: a pair of a csv or ssv sequence field appends one element for each
\* token of its value, in token order, each the token's value of the element
\* kind behind as many pointers as the element type has, to the sequence the
\* field held before (a nil pointer to the sequence is allocated); when the
\* text does not tokenize or a token does not parse the call fails and the
\* sequence holds what it held before.
DelimitedTokensAppended ==
    [][ (pc = "loop" /\ Len(kvps) > 0 /\ client = "csv") =>
            LET Applied(w) ==
                    IF w.ok
                    THEN /\ err' = NoErr
                         /\ val'.f[w.field] # NilV
                         /\ CsvElems(val', w.field) = CsvElems(val, w.field) \o w.elems
                         /\ \A i \in 1..Len(val.f) : i # w.field => val'.f[i] = val.f[i]
                    ELSE /\ err' # NoErr
                         /\ pc' = "done"
                         /\ CsvElems(val', w.field) = CsvElems(val, w.field)
            IN  Applied(CsvWant(kvps[1])) ]_vars

\* the error the compile of each record type of the "bad" caller must end
\* with: none for a sequence of byte sequences and for the json fields
BadWant(name) ==
    CASE name \in {"SS", "PS", "NS"} -> "slices of slices not supported, except [][]byte"
      [] name = "MM" -> "maps to maps not supported"
      [] name = "MK" -> "invalid map key type: only string map keys supported"
      [] name \in {"SB", "SJ", "MJ", "KJ"} -> NoErr

\* the errors of a compile
CompileErrors ==
    { "slices of slices not supported, except [][]byte", "maps to maps not supported",
      "invalid map key type: only string map keys supported",
      "type cannot be determined", "type is not struct",
      "cannot use a struct type with isSSV or isCSV",
      "must use a slice of strings, ints, uints, floats or bools with isCSV or isSSV" }

\* C12: a record with a field that is a sequence of sequences (not of byte
\* sequences), a mapping of mappings or a mapping with a key that is no
\* string, none of them with the json modifier, does not compile: Unmarshal
\* returns the compile error, the target is as it was and the cache has no
\* entry for the type.  A sequence of byte sequences, and the same sequences
\* and mappings with the json modifier, compile: the type gets its cache
\* entry with the field in it and the call goes on to the pairs.
BadFieldsRefused ==
    (client = "bad" /\ pc \in {"loop", "done"}) =>
        LET Outcome(t, want) ==
                IF want # NoErr
                THEN /\ pc = "done"
                     /\ err = want
                     /\ val = arg.v.val.p
                     /\ val = Zero(t)
                     /\ typeKey(t) \notin DOMAIN typeNameMetaMap
                ELSE /\ err \notin CompileErrors
                     /\ typeKey(t) \in DOMAIN typeNameMetaMap
                     /\ DOMAIN typeNameMetaMap[typeKey(t)] = {<<"a">>, <<"b">>}
                     /\ meta = typeNameMetaMap[typeKey(t)]
        IN  Outcome(vtype, BadWant(vtype.name))

\* C12 happens: the record with a sequence of sequences was refused after
\* the record with the sequence of byte sequences had been compiled
BadFieldsSeen ==
    /\ client = "bad"
    /\ pc = "done"
    /\ vtype.name = "SS"
    /\ err = "slices of slices not supported, except [][]byte"
    /\ Len(arg.kvps) = 2
    /\ "main.SB" \in DOMAIN typeNameMetaMap

\* C13: for every record type parseStruct returns a TypeMeta at most once,
\* however the calls of the goroutines interleave and also when the type is
\* compiled as a nested record of another; every lookup of the type, by any
\* goroutine and any decoder, has the TypeMeta that is in the cache.
CompiledAtMostOnce ==
    /\ \A tk \in DOMAIN compiles : compiles[tk] <= 1
    /\ \A g \in 1..MaxGoroutines :
          (gor[g].pc \in {"unlock", "idle"} /\ gor[g].n > 0 /\ gor[g].err = NoErr) =>
              /\ typeKey(gor[g].t) \in DOMAIN typeNameMetaMap
              /\ gor[g].meta = typeNameMetaMap[typeKey(gor[g].t)]

\* C13 happens: one goroutine compiled L1, and with it L2 as a nested
\* record; another goroutine, with another decoder, then looked L2 up and
\* got the cached TypeMeta while the first was calling again
CompiledOnceSeen ==
    /\ client = "go"
    /\ gor[1].t = TL1 /\ gor[1].d = defaultDecoder /\ gor[1].pc = "idle" /\ gor[1].n = 1
    /\ gor[2].t = TL2 /\ gor[2].d = caseDecoder /\ gor[2].pc = "unlock"
    /\ gor[2].meta = typeNameMetaMap["main.L2"]
    /\ compiles["main.L1"] = 1 /\ compiles["main.L2"] = 1 /\ compiles["main.L3"] = 1

\* C14: a goroutine whose lookup hits the cache holds tcm.lck for reading
\* only, so that two such lookups can go on at the same time; the lock is
\* held for writing only by a goroutine whose type is not in the cache yet,
\* while it compiles and inserts it.
SharedLockOnHit ==
    \A g \in 1..MaxGoroutines :
        LET hits == \/ gor[g].pc = "lookup" /\ typeKey(gor[g].t) \in DOMAIN typeNameMetaMap
                    \/ gor[g].pc = "unlock" /\ gor[g].hit
        IN  hits => (lck.writer # g /\ g \in lck.readers)

\* the text of the field a pair keyed c/<name> sets: the value of the last
\* such pair of the call, the empty string without one
ReuseField(name) ==
    LET Hit(kv) == kv.Key = <<"c", "/">> \o name
    IN  IF Positions(Hit) = {} THEN StrV(<<>>) ELSE StrV(LastValue(Hit))

\* C15: a TypeMeta in the cache is never modified.  The entry of
\* TestReusedStruct keeps its one name, field, with the one locator of that
\* field, also after TestReusesStruct was compiled and flattened it through
\* S1 and through S2; and after a call on a TestReusesStruct S1.Field holds
\* the value of the last pair s1/field and S2.Field that of the last pair
\* s2/field.
CachedMetaNeverModified ==
    /\ [](client = "reuse" =>
            /\ "main.TestReusedStruct" \in DOMAIN typeNameMetaMap =>
                  LET Entry(tm) ==
                          /\ DOMAIN tm = {<<"f","i","e","l","d">>}
                          /\ tm[<<"f","i","e","l","d">>].fieldName = <<"f","i","e","l","d">>
                          /\ Len(tm[<<"f","i","e","l","d">>].locators) = 1
                          /\ tm[<<"f","i","e","l","d">>].locators[1].ind = 0
                  IN  Entry(typeNameMetaMap["main.TestReusedStruct"])
            /\ (pc = "done" /\ vtype = TestReusesStruct) =>
                  /\ err = NoErr
                  /\ val = StructV(<<StructV(<<ReuseField(<<"s","1","/","f","i","e","l","d">>)>>),
                                     StructV(<<ReuseField(<<"s","2","/","f","i","e","l","d">>)>>)>>))
    /\ [][\A tk \in DOMAIN typeNameMetaMap :
              /\ tk \in DOMAIN typeNameMetaMap'
              /\ typeNameMetaMap'[tk] = typeNameMetaMap[tk]]_vars

\* C15 happens: TestReusedStruct was compiled and decoded on its own, then
\* flattened twice by the compile of TestReusesStruct, whose call set
\* S1.Field and S2.Field from their own pairs
CachedMetaReusedSeen ==
    /\ client = "reuse"
    /\ pc = "done"
    /\ vtype = TestReusesStruct
    /\ "main.TestReusedStruct" \in DOMAIN cache0
    /\ "main.TestReusesStruct" \notin DOMAIN cache0
    /\ val = StructV(<<StructV(<<StrV(<<"v","1">>)>>), StructV(<<StrV(<<"v","2">>)>>)>>)

\* C18: when the pair at the cursor belongs to a child of the sequence of
\* records, the step decodes it together with all the pairs that follow it
\* without a gap under the same child, however many they are: the cursor
\* moves past exactly that run, and one element is appended that holds the
\* values of all the pairs of the run.
WholeRunGathered ==
    [][ (client = "seq" /\ pc = "loop" /\ Len(kvps) > 0 /\ SeqChild(kvps[1]) # <<>>) =>
            LET Gathered(run) ==
                    /\ err' = NoErr
                    /\ kvps' = SubSeq(kvps, Len(run) + 1, Len(kvps))
                    /\ val'.f[1] = SliceV(val.f[1].e \o
                                          <<StructV(<<SeqLeaf(run, <<"f">>),
                                                      SeqLeaf(run, <<"g">>),
                                                      SeqLeaf(run, <<"h">>)>>)>>)
                    /\ val'.f[2] = val.f[2]
            IN  Gathered(SeqRuns(kvps)[1]) ]_vars

\* the key of a pair of the "coll" caller is c/<name>/<segment>
CollUnder(kv, name) == HasPrefix(kv.Key, <<"c", "/">> \o name \o <<"/">>)

\* the segment of the key that follows c/<name>/
CollSegment(kv, name) == SplitOn(TrimPrefix(kv.Key, <<"c", "/">> \o name \o <<"/">>), "/")[1]

\* what UnmarshalText of TU makes of a raw value: a:b gives the record with
\* A = a and B = b, ab is refused
CollText(value) ==
    IF value = <<"a",":","b">> THEN PtrV(StructV(<<StrV(<<"a">>), StrV(<<"b">>)>>))
    ELSE NilV

\* mapping m with the value v under key seg
CollPut(m, seg, v) ==
    MapV((seg :> v) @@ (IF m = NilV THEN EmptyMap ELSE m.m))

\* C16: the text-decodable type TU is decoded by its UnmarshalText wherever
\* it stands: a pair of the field T (*TU) assigns the decoded record, a pair
\* of the sequence Ts ([]*TU) appends one decoded record, a pair of the
\* mapping Tm (map[string]*TU) stores the decoded record under the key
\* segment; a value UnmarshalText refuses makes the call fail.
TextDecodedEverywhere ==
    [][ (client = "coll" /\ pc = "loop" /\ Len(kvps) > 0) =>
            LET Decoded(kv, tu) ==
                    /\ (kv.Key = <<"c","/","t">> /\ tu # NilV) =>
                           (err' = NoErr /\ val'.f[1] = tu)
                    /\ (CollUnder(kv, <<"t","s">>) /\ tu # NilV) =>
                           (err' = NoErr /\ val'.f[2] = SliceV(Append(val.f[2].e, tu)))
                    /\ (CollUnder(kv, <<"t","m">>) /\ tu # NilV) =>
                           (err' = NoErr
                            /\ val'.f[3] = CollPut(val.f[3], CollSegment(kv, <<"t","m">>), tu))
                    /\ ((kv.Key = <<"c","/","t">> \/ CollUnder(kv, <<"t","s">>)
                         \/ CollUnder(kv, <<"t","m">>)) /\ tu = NilV) =>
                           (err' # NoErr /\ pc' = "done")
            IN  Decoded(kvps[1], CollText(kvps[1].Value)) ]_vars

\* C17: a pair keyed prefix/<path of a mapping field>/<segment>, with or
\* without deeper segments after it, stores its number under the key
\* <segment> of the mapping, which is allocated when nil; the other entries
\* stay.  This holds for the mapping M at the top of the target (path m) and
\* for the mapping M of the nested record O (path o/m).
MapKeyIsNextSegment ==
    [][ (client = "coll" /\ pc = "loop" /\ Len(kvps) > 0) =>
            LET Stored(kv) ==
                    /\ CollUnder(kv, <<"m">>) =>
                           /\ err' = NoErr
                           /\ val'.f[4] = CollPut(val.f[4], CollSegment(kv, <<"m">>),
                                                  IntV(DecimalVal(kv.Value)))
                    /\ CollUnder(kv, <<"o","/","m">>) =>
                           /\ err' = NoErr
                           /\ val'.f[6].f[1] =
                                  CollPut(val.f[6].f[1], CollSegment(kv, <<"o","/","m">>),
                                          IntV(DecimalVal(kv.Value)))
            IN  Stored(kvps[1]) ]_vars

\* the pair list with every key c/o/it/.. turned into the key c/it/.. of the
\* field at the top of the target
CollLifted(ps) ==
    [i \in 1..Len(ps) |->
        KV(<<"c","/","i","t","/">> \o TrimPrefix(ps[i].Key, <<"c","/","o","/","i","t","/">>),
           ps[i].Value)]

\* C19: a sequence of records inside a nested record is decoded like the
\* same sequence at the top of the target: after a call whose pairs all lie
\* under c/o/it/, O.It holds the elements that It holds after the call with
\* the same pairs under c/it/, one element for each group of a child with
\* the values of the group in it.
NestedSequenceLikeTopLevel ==
    (client = "coll" /\ pc = "done" /\ Len(arg.kvps) > 0
     /\ \A i \in 1..Len(arg.kvps) : CollUnder(arg.kvps[i], <<"o","/","i","t">>)) =>
        LET Same(top) ==
                /\ top.err = NoErr
                /\ Len(top.v.p.f[5].e) > 0
                /\ err = top.err
                /\ val.f[6].f[2] = top.v.p.f[5]
        IN  Same(Unmarshal(d, arg.prefix, CollLifted(arg.kvps), arg.v, cache0))


\* the names of the schema that are the key k or one of its ancestor
\* directories
WalkAncestors(m, k) ==
    {n \in DOMAIN m : \/ n = k
                      \/ Len(n) < Len(k) /\ SubSeq(k, 1, Len(n)) = n /\ k[Len(n) + 1] = "/"}

\* C20: a pair is dispatched to the schema entry with the longest name among
\* the remaining key and its ancestor directories, and to no other entry: the
\* step leaves the target as allocAssign of that entry leaves it, and leaves
\* it alone when no ancestor is an entry.  With the entries a (the mapping
\* A) and a/b (the number B) the key a/b/x sets B and never stores into A.
LongestAncestorDispatched ==
    [][ (client = "walk" /\ pc = "loop" /\ Len(kvps) > 0) =>
            LET Hit(kv, anc) ==
                    /\ anc = {} => (val' = val /\ err' = NoErr)
                    /\ anc # {} =>
                           LET Longest(n) ==
                                   /\ err' = NoErr
                                   /\ val' = allocAssign(d, meta[n], kv, Tail(kvps), val,
                                                         vtype, pathPrefix,
                                                         typeNameMetaMap).val
                                   /\ (n = <<"a","/","b">>) =>
                                          (val'.f[1] = val.f[1]
                                           /\ val'.f[2] = IntV(DecimalVal(kv.Value)))
                                   /\ (n = <<"a">>) => val'.f[2] = val.f[2]
                           IN  Longest(CHOOSE n \in anc : \A m \in anc : Len(m) <= Len(n))
                    /\ HasPrefix(kv.Key, <<"c","/","a","/","b">>) =>
                           <<"a","/","b">> \in anc
            IN  Hit(kvps[1], WalkAncestors(meta, TrimPrefix(kvps[1].Key, <<"c","/">>))) ]_vars

\* C20 witness: the call with the single pair c/a/b/x has set B and left the
\* mapping A nil
DeepKeyDispatchedSeen ==
    /\ client = "walk"
    /\ pc = "done"
    /\ err = NoErr
    /\ arg.kvps = <<KV(<<"c","/","a","/","b","/","x">>, <<"2">>)>>
    /\ val.f[2] = IntV(2)
    /\ val.f[1] = NilV


\* the locators of every FieldMeta of every TypeMeta in the cache
CachedLocators ==
    UNION { UNION { {typeNameMetaMap[tk][n].locators[i] :
                        i \in 1..Len(typeNameMetaMap[tk][n].locators)} :
                    n \in DOMAIN typeNameMetaMap[tk] } :
            tk \in DOMAIN typeNameMetaMap }

\* C21: no locator of a TypeMeta that a successful compile produced has
\* both isSlice and isMap set, whatever sequence and mapping layers the
\* field types of the record combine.
SliceAndMapExclusive ==
    \A loc \in CachedLocators : ~(loc.isSlice /\ loc.isMap)


\* the FieldMetas of every TypeMeta in the cache
CachedFields ==
    UNION { {typeNameMetaMap[tk][n] : n \in DOMAIN typeNameMetaMap[tk]} :
            tk \in DOMAIN typeNameMetaMap }

\* the record types of the "mix" caller whose field B has csv or ssv on
\* something that is no sequence of scalars
DelimitedMisuse == {"CI", "CR", "CM", "CB", "CJ", "SI"}

\* C22: a FieldMeta with the csv or ssv style that a successful compile
\* produced has a last locator that is a sequence and no json blob, and a
\* scalar kind; a record with csv or ssv on a number, a record, a mapping, a
\* byte sequence or together with json does not compile: the call ends with
\* an error and the type gets no cache entry.  The sequence of numbers with
\* csv compiles.
DelimitedOnlyOnScalarSequences ==
    /\ \A tfm \in CachedFields :
          isSpecial(tfm) =>
              /\ tfm.locators[Len(tfm.locators)].isSlice
              /\ ~tfm.locators[Len(tfm.locators)].isJSON
              /\ tfm.computedType \in {typeString, typeInt, typeDuration, typeUint,
                                       typeFloat, typeBool}
    /\ (client = "mix" /\ pc \in {"loop", "done"} /\ vtype.name \in DelimitedMisuse) =>
          /\ pc = "done"
          /\ err # NoErr
          /\ typeKey(vtype) \notin DOMAIN typeNameMetaMap
    /\ (client = "mix" /\ pc \in {"loop", "done"} /\ vtype.name = "CS") =>
          /\ typeKey(vtype) \in DOMAIN typeNameMetaMap
          /\ isCSV(typeNameMetaMap[typeKey(vtype)][<<"b">>])


\* the number of pointer layers of the record types J0..J2, P0..P2, Q0..Q2
\* of the "mix" caller
MixDepth(name) == CASE name \in {"J0", "P0", "Q0"} -> 0
                    [] name \in {"J1", "P1", "Q1"} -> 1
                    [] name \in {"J2", "P2", "Q2"} -> 2

\* C23: pointer layers of any depth are materialized.  The pair c/b with a
\* json document stores the parsed record behind the p pointer layers of
\* the json field B (p = 0, 1, 2); the pair c/b/k with a number appends it
\* behind the c pointer layers of the elements of the sequence B, and stores
\* it under k behind the c layers of the elements of the mapping B (c = 0, 1,
\* 2); the step succeeds in each case.
PointerDepthMaterialized ==
    [][ (client = "mix" /\ pc = "loop" /\ Len(kvps) > 0
         /\ vtype.name \in {"J0", "J1", "J2", "P0", "P1", "P2", "Q0", "Q1", "Q2"}) =>
            LET Layered(kv, n) ==
                    /\ (vtype.name \in {"J0", "J1", "J2"}
                        /\ kv.Value = <<"{","\"","f","\"",":","1","}">>) =>
                           /\ err' = NoErr
                           /\ val'.f[2] = WrapPtr(StructV(<<IntV(1), IntV(0), IntV(0)>>), n)
                    /\ (vtype.name \in {"P0", "P1", "P2"}
                        /\ kv.Key = <<"c","/","b","/","k">>) =>
                           /\ err' = NoErr
                           /\ val'.f[2] = SliceV(Append(val.f[2].e, WrapPtr(IntV(7), n)))
                    /\ (vtype.name \in {"Q0", "Q1", "Q2"}
                        /\ kv.Key = <<"c","/","b","/","k">>) =>
                           /\ err' = NoErr
                           /\ val'.f[2] = MapV(<<"k">> :> WrapPtr(IntV(7), n))
            IN  Layered(kvps[1], MixDepth(vtype.name)) ]_vars


\* the container nesting depth of a type: the number of sequence or mapping
\* layers with record elements on the deepest way into it
RECURSIVE SchemaDepth(_)
SchemaDepth(t) ==
    CASE t.kind = "ptr" -> SchemaDepth(t.elem)
      [] t.kind \in {"slice", "map"} ->
           LET Elem(e) == IF e.kind = "struct" THEN 1 + SchemaDepth(e) ELSE SchemaDepth(e)
           IN  Elem(t.elem)
      [] t.kind = "struct" ->
           IF Len(t.fields) = 0 THEN 0
           ELSE MaxOf({SchemaDepth(t.fields[i].Type) : i \in 1..Len(t.fields)})
      [] OTHER -> 0

\* the schema entry the pair at the cursor is dispatched to, <<".">> without
WalkHit ==
    LET Hit(key, pp) ==
            IF HasSuffix(kvps[1].Key, <<"/">>) \/ (pp # <<>> /\ TrimPrefix(key, pp) = key)
            THEN <<".">>
            ELSE FindEntry(meta, TrimPrefix(key, pp))
    IN  Hit(KeyOf(d, kvps[1].Key), KeyOf(d, pathPrefix))

\* C24: every call of Unmarshal ends.  Each iteration of the main loop takes
\* at least one pair off the remaining list; the entry the ancestor walk
\* finds is no longer than the remaining key; a recursive call for an element
\* of a sequence of records runs with a prefix strictly longer than the
\* caller's, with a part of the caller's pairs, on a record type whose
\* container nesting depth is strictly less than the caller's, so that the
\* depth of the recursion is at most the nesting depth of the schema, however
\* many pairs there are; and a call that reached its loop gets to its end.
UnmarshalTerminates ==
    /\ [][ (client = "deep" /\ pc = "loop" /\ Len(kvps) > 0) =>
              LET Nested(tfm, loc) ==
                      (loc.isSlice /\ tfm.computedType = typeStruct /\ ~loc.isJSON) =>
                          LET Inner(newprefix, c) ==
                                  /\ Len(newprefix) > Len(pathPrefix)
                                  /\ HasPrefix(newprefix, KeyOf(d, pathPrefix))
                                  /\ Len(c.curated) >= 1
                                  /\ Len(c.curated) + Len(c.rest) = Len(kvps)
                                  /\ c.rest = kvps'
                                  /\ SchemaDepth(loc.ttype) < SchemaDepth(vtype)
                          IN  Inner(ElementPrefix(d, tfm, loc, kvps[1], pathPrefix),
                                    Curate(d, ElementPrefix(d, tfm, loc, kvps[1], pathPrefix),
                                           0, Tail(kvps), <<kvps[1]>>))
                  Walked(hit) ==
                      /\ Len(kvps') < Len(kvps)
                      /\ hit # <<".">> =>
                            /\ Len(hit) <= Len(kvps[1].Key) - Len(pathPrefix)
                            /\ Nested(meta[hit], meta[hit].locators[Len(meta[hit].locators)])
              IN  Walked(WalkHit) ]_vars
    /\ (client = "deep" /\ pc = "loop") ~> (pc = "done")

\* C24 happens: a call on the outer record ended after decoding an element
\* of the inner sequence, two recursive calls deep, and a number of the
\* middle record
DeepCallEnded ==
    /\ client = "deep"
    /\ pc = "done"
    /\ err = NoErr
    /\ vtype.name = "Deep"
    /\ Len(arg.kvps) = 2
    /\ val = StructV(<<SliceV(<<StructV(<<SliceV(<<StructV(<<IntV(1), IntV(0), IntV(0)>>)>>),
                                          IntV(3)>>)>>)>>)


\* C25: no call deadlocks on tcm.lck because of itself.  A goroutine inside
\* tMeta holds the lock exclusively, from the lookup to the deferred Unlock;
\* it takes the lock only when it is outside tMeta, so a recursive Unmarshal
\* for a container element locks after the outer tMeta has unlocked; the
\* cache changes only in the compile step of the goroutine that holds the
\* lock, nested record types included, and that step takes no lock; and
\* every acquisition of the lock is followed by its release, however the
\* goroutines interleave.
NoSelfDeadlock ==
    /\ [](\A g \in 1..MaxGoroutines :
             /\ gor[g].pc \in {"lookup", "compile", "unlock"} <=> lck.writer = g
             /\ lck.readers = {})
    /\ [][ /\ typeNameMetaMap' # typeNameMetaMap =>
                \E g \in 1..MaxGoroutines :
                    /\ lck.writer = g /\ gor[g].pc = "compile" /\ gor'[g].pc = "unlock"
                    /\ lck' = lck
           /\ \A g \in 1..MaxGoroutines :
                 (lck.writer # g /\ lck'.writer = g) =>
                     (gor[g].pc = "idle" /\ lck.writer = 0) ]_vars
    /\ \A g \in 1..MaxGoroutines : (lck.writer = g) ~> (lck.writer # g)

\* C25 happens: goroutine 1 compiled L1 with its nested records L2 and L3
\* in one holding of the lock, released it and holds it again for its next
\* call, while goroutine 2 has had its turn in between
LockReleasedSeen ==
    /\ client = "go"
    /\ {"main.L1", "main.L2", "main.L3"} \subseteq DOMAIN typeNameMetaMap
    /\ compiledBy["main.L3"] = gor[1].d
    /\ gor[1].n = 2 /\ lck.writer = 1
    /\ gor[2].n = 1 /\ gor[2].pc = "idle"


\* C26: the cache only grows.  No step removes an entry or replaces its
\* TypeMeta; a call whose compile failed leaves no entry for its type, while
\* the entry of a nested record type compiled on the way stays (L3 inside
\* NF); and every call on such a type, the first and the later ones, ends
\* with the same compile error.
CacheOnlyGrows ==
    /\ [](client = "mix" =>
            /\ (pc = "done" /\ err \in CompileErrors) =>
                  typeKey(vtype) \notin DOMAIN typeNameMetaMap
            /\ (pc \in {"loop", "done"} /\ vtype.name = "NF") =>
                  /\ pc = "done"
                  /\ err = "slices of slices not supported, except [][]byte"
                  /\ "main.L3" \in DOMAIN typeNameMetaMap
                  /\ "main.NF" \notin DOMAIN typeNameMetaMap
            /\ (pc \in {"loop", "done"} /\ vtype.name \in {"CI", "CM", "SI"}) =>
                  err = "must use a slice of strings, ints, uints, floats or bools with isCSV or isSSV")
    /\ [][client = "mix" =>
             \A tk \in DOMAIN typeNameMetaMap :
                 /\ tk \in DOMAIN typeNameMetaMap'
                 /\ typeNameMetaMap'[tk] = typeNameMetaMap[tk]]_vars

\* C26 happens: the second call on NF found L3 in the cache, left there by
\* the first, compiled NF again and failed again
FailedCompileRepeated ==
    /\ client = "mix"
    /\ calls = 2
    /\ pc = "done"
    /\ vtype.name = "NF"
    /\ DOMAIN cache0 = {"main.L3"}
    /\ DOMAIN typeNameMetaMap = {"main.L3"}
    /\ err = "slices of slices not supported, except [][]byte"


\* C27: what a call of Unmarshal returns depends on the decoder of the call,
\* the prefix, the pairs and the target only, not on the calls made before:
\* the error and the target at the end of every call are those of the same
\* call made with an empty cache, also when another decoder, with another
\* CaseSensitive, compiled the record type in an earlier call.
OutcomeIndependentOfHistory ==
    (client = "case" /\ pc = "done") =>
        LET Same(fresh) == err = fresh.err /\ PtrV(val) = fresh.v
        IN  Same(Unmarshal(d, arg.prefix, arg.kvps, arg.v, EmptyMap))


\* the number a text of the "num" caller stands for, and whether it is a
\* base-10 integer with a sign (signed) or without one (unsigned)
NumText(value) ==
    CASE value = <<"2","0","0">>         -> [n |-> 200,    signed |-> TRUE,  unsigned |-> TRUE]
      [] value = <<"-","1","2","9">>     -> [n |-> 0 - 129, signed |-> TRUE, unsigned |-> FALSE]
      [] value = <<"1","2","7">>         -> [n |-> 127,    signed |-> TRUE,  unsigned |-> TRUE]
      [] value = <<"3","0","0">>         -> [n |-> 300,    signed |-> TRUE,  unsigned |-> TRUE]
      [] value = <<"-","1">>             -> [n |-> 0 - 1,  signed |-> TRUE,  unsigned |-> FALSE]
      [] value = <<"2","5","5">>         -> [n |-> 255,    signed |-> TRUE,  unsigned |-> TRUE]
      [] value = <<"4","0","0","0","0">> -> [n |-> 40000,  signed |-> TRUE,  unsigned |-> TRUE]
      [] OTHER                           -> [n |-> 0,      signed |-> FALSE, unsigned |-> FALSE]

\* the number in lo..hi that differs from n by a multiple of hi - lo + 1
LowBits(n, lo, hi) == CHOOSE m \in lo..hi : (m - n) % (hi - lo + 1) = 0

\* C28: a base-10 integer that fits in 64 bits is stored in a narrower
\* integer field without an error, cut to the low bits of the field: int8
\* gets the value modulo 2^8 in -128..127, uint8 the value modulo 2^8 in
\* 0..255, int16 the value modulo 2^16 in -32768..32767; a text that is no
\* integer of the field's signedness makes the call fail and leaves the
\* field as it was.
IntegersTruncated ==
    [][ (client = "num" /\ pc = "loop" /\ Len(kvps) > 0) =>
            LET Narrowed(i, ok, want) ==
                    IF ok THEN /\ err' = NoErr
                               /\ val'.f[i] = want
                               /\ \A j \in 1..3 : j # i => val'.f[j] = val.f[j]
                    ELSE /\ err' # NoErr
                         /\ pc' = "done"
                         /\ val' = val
                Stored(key, t) ==
                    CASE key = <<"c","/","i","8">> ->
                           Narrowed(1, t.signed, IntV(LowBits(t.n, 0 - 128, 127)))
                      [] key = <<"c","/","u","8">> ->
                           Narrowed(2, t.unsigned, UintV(LowBits(t.n, 0, 255)))
                      [] key = <<"c","/","i","1","6">> ->
                           Narrowed(3, t.signed, IntV(LowBits(t.n, 0 - 32768, 32767)))
            IN  Stored(kvps[1].Key, NumText(kvps[1].Value)) ]_vars

\* C28 happens: 200 was stored in the int8 as -56, 300 in the uint8 as 44
\* and 40000 in the int16 as -25536, without an error
TruncationSeen ==
    /\ client = "num"
    /\ pc = "done"
    /\ err = NoErr
    /\ val = StructV(<<IntV(0 - 56), UintV(44), IntV(0 - 25536)>>)


\* the call in progress decodes its pairs into the record that one call with
\* the same pairs, decoder and prefix left
SecondDecode(once) ==
    /\ once.err = NoErr
    /\ arg.v = [type |-> arg.v.type, val |-> once.v]

\* C29: a second decode of the same pairs into the same record leaves the
\* scalar, the json field and the mapping as the first decode left them and
\* every sequence (plain, delimited, of records) with the elements of the
\* first decode twice, 2n elements for n.
SequencesDoubled ==
    (client = "twice" /\ pc = "done") =>
        LET Doubled(once) ==
                SecondDecode(once) =>
                    /\ err = NoErr
                    /\ \A i \in 1..3 : val.f[i] = once.v.p.f[i]
                    /\ \A i \in 4..6 :
                          /\ val.f[i] = SliceV(once.v.p.f[i].e \o once.v.p.f[i].e)
                          /\ Len(val.f[i].e) = 2 * Len(once.v.p.f[i].e)
        IN  Doubled(Unmarshal(d, arg.prefix, arg.kvps,
                              NewTarget(arg.v.type.elem), EmptyMap))

\* C29 happens: the second decode of the plain, the delimited and the record
\* pair has ended, with 2, 4 and 2 elements in the sequences
SecondDecodeSeen ==
    /\ client = "twice"
    /\ pc = "done"
    /\ err = NoErr
    /\ arg.kvps = <<KV(<<"c","/","s","/","0">>, <<"2">>),
                    KV(<<"c","/","d">>, <<"1",",","2">>),
                    KV(<<"c","/","r","/","1","/","f">>, <<"1">>)>>
    /\ arg.v.val = PtrV(StructV(<<IntV(0), Zero(TE), NilV,
                                  SliceV(<<IntV(2)>>),
                                  SliceV(<<IntV(1), IntV(2)>>),
                                  SliceV(<<StructV(<<IntV(1), IntV(0), IntV(0)>>)>>)>>))
    /\ val.f[4] = SliceV(<<IntV(2), IntV(2)>>)
    /\ val.f[5] = SliceV(<<IntV(1), IntV(2), IntV(1), IntV(2)>>)
    /\ Len(val.f[6].e) = 2


\* the child segments of the "mapcase" caller in lower case
MapCaseLower(seg) ==
    IF seg \in {<<"K","e","y">>, <<"K","E","Y">>} THEN <<"k","e","y">> ELSE seg

\* the map key of a child segment: lower-cased unless the decoder is case
\* sensitive
MapCaseKey(seg) == IF d.CaseSensitive THEN seg ELSE MapCaseLower(seg)

\* C30: the element of a pair keyed prefix/<path of a mapping>/<segment> is
\* stored under the lower-cased segment when CaseSensitive is false, so that
\* segments that differ only in letter case share one entry which the later
\* pair overwrites, and under the segment unchanged when CaseSensitive is
\* true; for the mapping M at the top of the target and for the mapping M of
\* the nested record O.
MapKeyFollowsCase ==
    [][ (client = "mapcase" /\ pc = "loop" /\ Len(kvps) > 0) =>
            LET Stored(kv) ==
                    /\ CollUnder(kv, <<"m">>) =>
                           /\ err' = NoErr
                           /\ val'.f[1] = CollPut(val.f[1],
                                                  MapCaseKey(CollSegment(kv, <<"m">>)),
                                                  IntV(DecimalVal(kv.Value)))
                    /\ CollUnder(kv, <<"o","/","m">>) =>
                           /\ err' = NoErr
                           /\ val'.f[2].f[1] =
                                  CollPut(val.f[2].f[1],
                                          MapCaseKey(CollSegment(kv, <<"o","/","m">>)),
                                          IntV(DecimalVal(kv.Value)))
            IN  Stored(kvps[1]) ]_vars

====
